---------------------------- MODULE Spec2Model ----------------------------
(***************************************************************************)
(* A model of craftdriver's protocol/session layer:                        *)
(*   - the polling wait engine (WebDriverWait.until) and the canonical     *)
(*     conditions of `until`,                                              *)
(*   - the Classic HTTP transport (HttpClient.send) with the element and   *)
(*     session commands built on it,                                       *)
(*   - the BiDi connection multiplexer (BiDiConnection).                   *)
(* Each part has its own specification (SpecWait, SpecClassic, SpecBidi);  *)
(* the variables of the other parts stay at their initial values.          *)
(***************************************************************************)
EXTENDS Integers, Sequences, FiniteSets, TLC

(***************************************************************************)
(* Bounds of the model.                                                    *)
(***************************************************************************)
\* polls of one wait that the model follows
MaxAttempts == 3
\* largest timeout (clock units) a wait is started with
MaxTimeout == 2
\* largest polling interval (clock units)
MaxInterval == 1
\* the clock stops advancing here
MaxClock == 4
\* longest time one condition evaluation takes, and the longest a timer is late
MaxDelay == 1
\* latest clock reading at which a wait is started
MaxStart == 1

(***************************************************************************)
(* JavaScript values.  A value is a record [t, s]: its type tag and its    *)
(* payload as a string, so that values of different types stay comparable. *)
(***************************************************************************)
JsUndefined == [t |-> "undefined", s |-> ""]
JsNull == [t |-> "null", s |-> ""]
JsTrue == [t |-> "boolean", s |-> "true"]
JsFalse == [t |-> "boolean", s |-> "false"]
JsZero == [t |-> "number", s |-> "0"]
JsNaN == [t |-> "number", s |-> "NaN"]
JsEmptyString == [t |-> "string", s |-> ""]
JsString(x) == [t |-> "string", s |-> x]
JsObject(x) == [t |-> "object", s |-> x]
JsBool(b) == IF b THEN JsTrue ELSE JsFalse

\* ToBoolean of the language: what `if (v)`, `v || w`, `!v` and Boolean(v) see.
Truthy(v) ==
  CASE v.t = "undefined" -> FALSE
    [] v.t = "null" -> FALSE
    [] v.t = "boolean" -> v.s = "true"
    [] v.t = "number" -> v.s \notin {"0", "NaN"}
    [] v.t = "string" -> v.s # ""
    [] OTHER -> TRUE

\* a ?? b
Nullish(v) == v.t \in {"undefined", "null"}
Coalesce(a, b) == IF Nullish(a) THEN b ELSE a


(***************************************************************************)
(* What a call of an async function ends with: a returned value or a       *)
(* thrown error (its message).                                             *)
(***************************************************************************)
Return(v) == [threw |-> FALSE, v |-> v, err |-> ""]
Throw(e) == [threw |-> TRUE, v |-> JsUndefined, err |-> e]


(***************************************************************************)
(* The state.                                                              *)
(***************************************************************************)
\* the wait engine (WebDriverWait.until)
VARIABLES
  now,            \* Date.now()
  waitPc,         \* "idle" | "evaluating" | "sleeping" | "resolved" | "rejected"
  waitCfg,        \* the inputs of the call: timeoutMs, intervalMs, timeoutMsg, message, condition, target
  startedAt,      \* Date.now() when until() was called
  deadline,       \* until's local `deadline`
  lastErr,        \* until's local `lastErr`: "" is undefined, else the error's message
  attempts,       \* what each evaluation of the condition ended with, in order
  lastLocate,     \* the remote end's answer to the latest attempt's find-element call
  lastDisplayed,  \* the remote end's answer to the latest attempt's displayed call
  lastCheck,      \* Browser.waitFor: what `check` ended with in the latest attempt
  waitSettled     \* what until() ended with: Return(result) or Throw(message)

waitVars == <<now, waitPc, waitCfg, startedAt, deadline, lastErr, attempts,
              lastLocate, lastDisplayed, lastCheck, waitSettled>>

\* Classic commands
VARIABLES
  calls           \* the calls made so far: command, answer, outcome

classicVars == <<calls>>

\* the BiDi connection (BiDiConnection)
VARIABLES
  ws,             \* this.ws: a socket (its index in `sockets`), 0 is null
  messageId,      \* this.messageId
  pending,        \* this.pending: command id -> the send() call whose promise its entry settles
  connected,      \* this.connected
  wsUrl,          \* this.wsUrl ("" until connect() has been called)
  autoReconnect,  \* this.options.autoReconnect
  sockets,        \* every socket created so far: its state, the promise of the
                  \* connect() that created it: "pending" (its timer is running),
                  \* "resolved", "timedOut" (rejected by the timer), "failed"
                  \* (rejected by 'error'), and whether close() has called its
                  \* close method
  reconnects,     \* reconnections scheduled by setTimeout and not yet run
  wire,           \* commands the remote end has received and not answered
  promises        \* the promise of each send() call, in call order

bidiVars == <<ws, messageId, pending, connected, wsUrl, autoReconnect, sockets,
              reconnects, wire, promises>>

\* the listeners of the BiDi connection
VARIABLES
  eventHandlers,  \* this.eventHandlers: event name -> its Set of handlers, in insertion order
  registrations,  \* the registered listeners, with the name they are registered
                  \* under, in the order of the on() calls that added them
  lastDispatch    \* the latest event delivered since the listeners last changed:
                  \* the listeners registered when it arrived, the listeners
                  \* invoked (in order, with the key they were found under), and
                  \* whether an exception left handleEvent

eventVars == <<eventHandlers, registrations, lastDispatch>>

\* network interception (NetworkInterceptor)
VARIABLES
  subscribed,       \* this.subscribed
  netListeners,     \* how many 'network.beforeRequestSent' listeners initialize() has registered
  interceptCalls,   \* the intercept() calls made so far: where each stands, and its intercept id
  remoteIntercepts, \* the remote end's intercepts, in the order it created them
  netPending,       \* the commands of intercept() and removeIntercept() that await
                    \* their answer, in sending order
  handlers,         \* this.handlers: the intercept ids that have a handler, in insertion order
  interceptRules,   \* this.intercepts: the intercept ids that have a rule, in insertion order
  removeAll,        \* the removeAllIntercepts() call: where it stands, the ids it
                    \* copied from this.intercepts, and the ids it has sent
                    \* network.removeIntercept for
  request           \* the latest blocked-request event and what the pipeline did for it

netVars == <<subscribed, netListeners, interceptCalls, remoteIntercepts, netPending,
            handlers, interceptRules, removeAll, request>>

\* session state (SessionStateManager) and the browser it talks to
VARIABLES
  jar,            \* the browser's cookie store: (name, domain, path) -> value, secure, sameSite
  pageStorage,    \* the page's localStorage and sessionStorage: "{}" (empty) or "data"
  bidiMode,       \* this.connection?.isConnected(): BiDi commands, else Classic scripts
  storagePc,      \* "start" | "added" | "saved" | "cleared" | "loaded"
  file,           \* the snapshot file's content
  before,         \* the cookie store when saveState was called
  snapshot,       \* the latest getState(options): the options and the state returned
  lastSet         \* the latest setCookies call: the cookies given and the
                  \* storage.setCookie commands sent for them

storageVars == <<jar, pageStorage, bidiMode, storagePc, file, before, snapshot, lastSet>>

\* log monitoring (LogMonitor)
VARIABLES
  logSubscribed,   \* this.subscribed
  logInits,        \* initialize() calls that await the answer to session.subscribe
  logListeners,    \* how many 'log.entryAdded' listeners initialize() has registered
  allHandlers,     \* this.allHandlers, in insertion order
  levelHandlers,   \* this.levelHandlers: level -> its handlers, in insertion order
  consoleHandlers, \* this.consoleHandlers, in insertion order
  errorHandlers,   \* this.errorHandlers, in insertion order
  logs,            \* this.logs
  arrivals,        \* how many log.entryAdded events the remote end has sent
  waiters,         \* the waitForConsole / waitForError calls, in call order: the
                   \* message type and the predicate of each, whether its timer is
                   \* set, whether its subscriber is in consoleHandlers /
                   \* errorHandlers (these subscribers are kept here, apart from
                   \* the caller's handlers), its promise, how often resolve or
                   \* reject was called, and how many entries had arrived at the call
  lastNotify       \* the latest entry since the subscribers or the buffer were last
                   \* changed by the caller: the message,
                   \* the handlers invoked for it, and whether an exception left
                   \* notifyHandlers

logVars == <<logSubscribed, logInits, logListeners, allHandlers, levelHandlers,
             consoleHandlers, errorHandlers, logs, arrivals, waiters, lastNotify>>

\* event messages on their way from the socket to the listeners
VARIABLES
  incoming,     \* event messages the remote end has sent on the socket and the
                \* 'message' handler has not yet been called for, in sending order
  eventsSent,   \* how many event messages the remote end has sent
  subscribedTo, \* the event names of the subscribe() calls that have completed,
                \* less those of the unsubscribe() calls that have completed since
  invocations   \* the event each listener invocation so far was made for, in
                \* invocation order

orderVars == <<incoming, eventsSent, subscribedTo, invocations>>

\* one ElementHandle.select(value) call
VARIABLES
  selectPc,     \* where the call is: "idle", "locating" (in driver.wait), "tag"
                \* (awaiting el.getTagName()), "script" (awaiting executeScript),
                \* "resolved", "rejected"
  element,      \* the element the locator matches in the page: its tag, and
                \* the value select() was called with
  locates,      \* find-element requests made by the wait
  tagQueries,   \* tag-name requests made
  tagName,      \* const tagName ("" before the tag query is answered)
  scripts,      \* selection scripts executed on the element
  selectError   \* the error select() rejected with

selectVars == <<selectPc, element, locates, tagQueries, tagName, scripts, selectError>>

\* the Browser around the driver and its BiDi session
VARIABLES
  bidiSession,  \* this.bidiSession: "undefined" or "set"
  launchPc,     \* Browser.launch: "new", "connecting" (initBiDi awaits
                \* connection.connect), "initializing" (initBiDi awaits the
                \* commands of BiDiSession.connect), "launched"
  quitPc,       \* Browser.quit: "idle", "deleting" (awaits the DELETE session
                \* call), "resolved", "rejected"
  quitLog       \* what quit() has done, in order: "close" (bidiSession.close()),
                \* "delete" (the DELETE session request)

browserVars == <<bidiSession, launchPc, quitPc, quitLog>>

vars == <<waitVars, classicVars, bidiVars, eventVars, netVars, storageVars, logVars,
          orderVars, selectVars, browserVars>>

\* what the operations of one part leave alone
notWaitVars ==
  <<classicVars, bidiVars, eventVars, netVars, storageVars, logVars, orderVars,
    selectVars, browserVars>>
notClassicVars ==
  <<waitVars, bidiVars, eventVars, netVars, storageVars, logVars, orderVars,
    selectVars, browserVars>>
notBidiVars ==
  <<waitVars, classicVars, eventVars, netVars, storageVars, logVars, orderVars,
    selectVars, browserVars>>
notEventVars ==
  <<waitVars, classicVars, bidiVars, netVars, storageVars, logVars, orderVars,
    selectVars, browserVars>>
notNetVars ==
  <<waitVars, classicVars, bidiVars, eventVars, storageVars, logVars, orderVars,
    selectVars, browserVars>>
notStorageVars ==
  <<waitVars, classicVars, bidiVars, eventVars, netVars, logVars, orderVars,
    selectVars, browserVars>>
notSelectVars ==
  <<waitVars, classicVars, bidiVars, eventVars, netVars, storageVars, logVars, orderVars,
    browserVars>>
notLogVars ==
  <<waitVars, classicVars, bidiVars, eventVars, netVars, storageVars, orderVars,
    selectVars, browserVars>>

(***************************************************************************)
(* Wire Transport: HttpClient.send.  The remote end's answer to one        *)
(* request is a record [kind, value]:                                      *)
(*   "networkError"  the request emitted 'error'                           *)
(*   "emptyBody"     the response had no text                              *)
(*   "invalidJson"   the text did not parse                                *)
(*   "json"          the text parsed to an object whose `value` member is  *)
(*                   `value` (JsUndefined: the object has no such member)  *)
(*   "none"          no request was made                                   *)
(***************************************************************************)
NoRequest == [kind |-> "none", value |-> JsUndefined]
NetworkError == [kind |-> "networkError", value |-> JsUndefined]
EmptyBody == [kind |-> "emptyBody", value |-> JsUndefined]
InvalidJson == [kind |-> "invalidJson", value |-> JsUndefined]
Json(v) == [kind |-> "json", value |-> v]

\* a W3C element reference {"element-6066-...": id}, a legacy one {"ELEMENT": id}
ElementRef(id) == [t |-> "element", s |-> id]
LegacyElementRef(id) == [t |-> "legacyElement", s |-> id]
\* a W3C error envelope value {error: code, message: ..., stacktrace: ...}
ErrorValue(code) == [t |-> "error", s |-> code]
IsErrorEnvelope(resp) == resp.kind = "json" /\ resp.value.t = "error"

\* the object `res` itself, seen where `res.value ?? res` falls back to it
ResponseObject == JsObject("response")

\* HttpClient.send: resolves with the parsed body, rejects on a transport
\* error or an unparsable body.  Return(v): resolved with {value: v}.
HttpSend(resp) ==
  CASE resp.kind = "networkError" -> Throw("network error")
    [] resp.kind = "emptyBody" -> Return(JsUndefined)
    [] resp.kind = "invalidJson" -> Throw("Invalid JSON response")
    [] OTHER -> Return(resp.value)

\* (res as CommandResponse)?.value ?? res
ValueOf(res) == Coalesce(res.v, ResponseObject)

(***************************************************************************)
(* Session/Element proxy.                                                  *)
(***************************************************************************)
\* value?.[W3C_ELEMENT_KEY] || value?.[LEGACY_ELEMENT_KEY]; "" is undefined
ElementIdOf(value) ==
  IF value.t \in {"element", "legacyElement"} THEN value.s ELSE ""

\* Driver.findElement
FindElement(resp) ==
  LET res == HttpSend(resp) IN
  IF res.threw THEN res
  ELSE LET elId == ElementIdOf(ValueOf(res)) IN
       IF elId = "" THEN Throw("findElement failed")
       ELSE Return(ElementRef(elId))

\* WebElement.isDisplayed
IsDisplayed(resp) ==
  LET res == HttpSend(resp) IN
  IF res.threw THEN res ELSE Return(JsBool(Truthy(ValueOf(res))))

(***************************************************************************)
(* The canonical conditions of `until`.  `target` is "by" (a locator, to   *)
(* be resolved by findElement) or "element" (a WebElement handle, used as  *)
(* it is); loc and disp are the remote end's answers to the find-element   *)
(* and the displayed request of this evaluation.                           *)
(***************************************************************************)
TargetElement == ElementRef("e0")

\* resolveElement
ResolveElement(target, loc) ==
  IF target = "element" THEN Return(TargetElement) ELSE FindElement(loc)

\* until.elementLocated
ElementLocated(loc) == FindElement(loc)

\* until.elementExists
ElementExists(loc) ==
  IF FindElement(loc).threw THEN Return(JsFalse) ELSE Return(JsTrue)

\* until.elementNotExists
ElementNotExists(loc) ==
  IF FindElement(loc).threw THEN Return(JsTrue) ELSE Return(JsFalse)

\* until.elementIsVisible
ElementIsVisible(target, loc, disp) ==
  LET el == ResolveElement(target, loc) IN
  IF el.threw THEN el
  ELSE LET visible == IsDisplayed(disp) IN
       IF visible.threw THEN Return(JsUndefined)
       ELSE IF Truthy(visible.v) THEN Return(el.v) ELSE Return(JsUndefined)

\* until.elementIsNotVisible
ElementIsNotVisible(target, loc, disp) ==
  LET el == ResolveElement(target, loc) IN
  IF el.threw THEN Return(JsTrue)
  ELSE LET visible == IsDisplayed(disp) IN
       IF visible.threw THEN Return(JsTrue)
       ELSE IF Truthy(visible.v) THEN Return(JsFalse) ELSE Return(JsTrue)

LocatorConditions == {"elementLocated", "elementExists", "elementNotExists"}
VisibilityConditions == {"elementIsVisible", "elementIsNotVisible"}
CanonicalConditions == LocatorConditions \cup VisibilityConditions

\* one evaluation of a canonical condition
Evaluate(condition, target, loc, disp) ==
  CASE condition = "elementLocated" -> ElementLocated(loc)
    [] condition = "elementExists" -> ElementExists(loc)
    [] condition = "elementNotExists" -> ElementNotExists(loc)
    [] condition = "elementIsVisible" -> ElementIsVisible(target, loc, disp)
    [] OTHER -> ElementIsNotVisible(target, loc, disp)

\* the requests one evaluation makes
AsksLocate(condition, target) ==
  condition \in LocatorConditions \/ target = "by"
AsksDisplayed(condition, target, loc) ==
  condition \in VisibilityConditions /\ ~ResolveElement(target, loc).threw

(***************************************************************************)
(* What the environment can do: the values a custom condition can end      *)
(* with, and the answers of the remote end.                                *)
(***************************************************************************)
JsValues == {JsUndefined, JsNull, JsEmptyString, JsNaN, JsFalse, JsZero,
             JsTrue, JsObject("result")}
ConditionErrors == {"e1", "e2"}
CustomOutcomes == {Return(v) : v \in JsValues} \cup {Throw(e) : e \in ConditionErrors}

LocateAnswers == {Json(ElementRef("e1")), Json(LegacyElementRef("e1")),
                  Json(ErrorValue("no such element")), NetworkError}
DisplayedAnswers == {Json(JsTrue), Json(JsFalse),
                     Json(ErrorValue("stale element reference")), NetworkError}

(***************************************************************************)
(* Condition/Wait Engine: WebDriverWait.until.                             *)
(***************************************************************************)
\* Date.now(): the clock of the model reads MaxClock from then on; no
\* deadline lies beyond it
Clock(t) == IF t > MaxClock THEN MaxClock ELSE t

\* (mutant) the deadline taken as the timeout alone, not counted from the start
Deadline_NoStart(start, timeoutMs) == timeoutMs

\* const deadline = Date.now() + this.timeoutMs
Deadline(start, timeoutMs) == start + timeoutMs

\* (mutant) the loop never looks at the clock
KeepPolling_Always(t, dl) == TRUE

\* while (Date.now() < deadline)
KeepPolling(t, dl) == t < dl

\* (mutant) every result other than null and undefined ends the wait
IsFinalResult_NotNullish(result) == ~Nullish(result)

\* (mutant) only a truthy result ends the wait
IsFinalResult_TruthyOnly(result) == Truthy(result)

\* if (result || result === 0 || result === false) return result
IsFinalResult(result) == Truthy(result) \/ result = JsZero \/ result = JsFalse

\* message ?? this.timeoutMsg ?? `Wait timed out after ${timeoutMs}ms`,
\* then ": " + the last error's message when there is one ("" is undefined)
TimeoutError(message, timeoutMsg, err) ==
  [kind |-> "timeout",
   errMsg |-> IF message # "" THEN message
              ELSE IF timeoutMsg # "" THEN timeoutMsg ELSE "Wait timed out",
   cause |-> err]
NoError == [kind |-> "", errMsg |-> "", cause |-> ""]
Messages == {"", "custom message"}

\* the loop test, and what follows from it
LoopTest(t, dl, err) ==
  IF KeepPolling(t, dl)
  THEN /\ waitPc' = "evaluating"
       /\ waitSettled' = waitSettled
  ELSE /\ waitPc' = "rejected"
       /\ \E message \in Messages, timeoutMsg \in Messages :
            waitSettled' = [threw |-> TRUE, v |-> JsUndefined,
                            err |-> TimeoutError(message, timeoutMsg, err)]

NotSettled == [threw |-> FALSE, v |-> JsUndefined, err |-> NoError]

WaitInit ==
  /\ now \in 0..MaxStart
  /\ waitPc = "idle"
  /\ waitCfg = [timeoutMs |-> 0, intervalMs |-> 0, condition |-> "", target |-> ""]
  /\ startedAt = 0
  /\ deadline = 0
  /\ lastErr = ""
  /\ attempts = <<>>
  /\ lastLocate = NoRequest
  /\ lastDisplayed = NoRequest
  /\ lastCheck = Return(JsUndefined)
  /\ waitSettled = NotSettled

\* driver.wait(condition, {timeout, interval}): new WebDriverWait(...).until(condition)
\* up to the first evaluation of the condition
UntilCall ==
  /\ waitPc = "idle"
  /\ \E timeoutMs \in 0..MaxTimeout, intervalMs \in 0..MaxInterval,
        condition \in CanonicalConditions \cup {"custom", "waitFor"},
        target \in {"by", "element"} :
       /\ target = "element" => condition \in VisibilityConditions
       /\ waitCfg' = [timeoutMs |-> timeoutMs, intervalMs |-> intervalMs,
                      condition |-> condition, target |-> target]
       /\ startedAt' = now
       /\ deadline' = Deadline(now, timeoutMs)
       /\ LoopTest(now, Deadline(now, timeoutMs), "")
  /\ UNCHANGED <<now, lastErr, attempts, lastLocate, lastDisplayed, lastCheck>>
  /\ UNCHANGED notWaitVars

\* the awaited condition has settled with `out` at time t: lines 162-170
Settle(out, t) ==
  /\ now' = t
  /\ attempts' = Append(attempts, out)
  /\ IF ~out.threw /\ IsFinalResult(out.v)
     THEN /\ waitPc' = "resolved"
          /\ waitSettled' = [threw |-> FALSE, v |-> out.v, err |-> NoError]
          /\ lastErr' = lastErr
     ELSE /\ waitPc' = "sleeping"
          /\ waitSettled' = waitSettled
          /\ lastErr' = IF out.threw THEN out.err ELSE lastErr
  /\ UNCHANGED <<waitCfg, startedAt, deadline>>

\* one evaluation of a caller-supplied condition
EvaluateCustom ==
  /\ waitPc = "evaluating"
  /\ waitCfg.condition = "custom"
  /\ Len(attempts) < MaxAttempts
  /\ \E out \in CustomOutcomes, d \in 0..MaxDelay :
       /\ Settle(out, Clock(now + d))
  /\ UNCHANGED <<lastLocate, lastDisplayed, lastCheck>>
  /\ UNCHANGED notWaitVars

\* Browser.waitFor's condition around `check`: the value check returned, and
\* undefined when check threw or its promise was rejected
WaitForCondition(out) == IF out.threw THEN Return(JsUndefined) ELSE out

\* one evaluation of the condition Browser.waitFor(check) hands to the wait
EvaluateWaitFor ==
  /\ waitPc = "evaluating"
  /\ waitCfg.condition = "waitFor"
  /\ Len(attempts) < MaxAttempts
  /\ \E out \in CustomOutcomes, d \in 0..MaxDelay :
       /\ lastCheck' = out
       /\ Settle(WaitForCondition(out), Clock(now + d))
  /\ UNCHANGED <<lastLocate, lastDisplayed>>
  /\ UNCHANGED notWaitVars

\* one evaluation of a canonical condition against the remote end
EvaluateCanonical ==
  /\ waitPc = "evaluating"
  /\ waitCfg.condition \in CanonicalConditions
  /\ Len(attempts) < MaxAttempts
  /\ \E loc \in LocateAnswers \cup {NoRequest}, disp \in DisplayedAnswers \cup {NoRequest},
        d \in 0..MaxDelay :
       /\ (loc = NoRequest) <=> ~AsksLocate(waitCfg.condition, waitCfg.target)
       /\ (disp = NoRequest) <=> ~AsksDisplayed(waitCfg.condition, waitCfg.target, loc)
       /\ lastLocate' = loc
       /\ lastDisplayed' = disp
       /\ Settle(Evaluate(waitCfg.condition, waitCfg.target, loc, disp), Clock(now + d))
  /\ UNCHANGED lastCheck
  /\ UNCHANGED notWaitVars

\* await new Promise((r) => setTimeout(r, this.intervalMs)), then the loop test
TimerFires ==
  /\ waitPc = "sleeping"
  /\ \E d \in 0..MaxDelay :
       /\ now' = Clock(now + waitCfg.intervalMs + d)
       /\ LoopTest(Clock(now + waitCfg.intervalMs + d), deadline, lastErr)
  /\ UNCHANGED <<waitCfg, startedAt, deadline, lastErr, attempts, lastLocate,
                 lastDisplayed, lastCheck>>
  /\ UNCHANGED notWaitVars


(***************************************************************************)
(* Claims about the wait engine, checked under SpecWait.                   *)
(***************************************************************************)
\* The results the specification calls "not yet satisfied"; every other
\* returned value (truthy, false, 0) is a qualifying result.
NotYetValues == {JsUndefined, JsNull, JsEmptyString, JsNaN}
Qualifies(out) == ~out.threw /\ out.v \notin NotYetValues
QualifyingAttempts == {i \in 1..Len(attempts) : Qualifies(attempts[i])}

\* C4: a wait resolves only once the first qualifying attempt k has been
\* made, and with the result of attempt k or of a later attempt; attempts
\* before k never resolve it.
C4_ResolvesNotBeforeFirstQualifying ==
  waitPc = "resolved" =>
    /\ QualifyingAttempts # {}
    /\ \E k \in QualifyingAttempts :
         /\ \A i \in QualifyingAttempts : k <= i
         /\ \E j \in k..Len(attempts) :
              /\ Qualifies(attempts[j])
              /\ ~waitSettled.threw
              /\ waitSettled.v = attempts[j].v

C4_Witness ==
  /\ waitPc = "resolved"
  /\ waitCfg.condition = "custom"
  /\ Len(attempts) >= 3
  /\ attempts[1].threw
  /\ ~attempts[2].threw

\* C5: a wait whose condition has not yielded a qualifying result ends only
\* by rejecting with a timeout error, and not before the clock has reached
\* start + timeout.
C5_RejectsOnlyAtDeadline ==
  (waitPc \in {"resolved", "rejected"} /\ QualifyingAttempts = {}) =>
    /\ waitPc = "rejected"
    /\ waitSettled.threw
    /\ waitSettled.err.kind = "timeout"
    /\ now >= startedAt + waitCfg.timeoutMs

C5_Witness ==
  /\ waitPc = "rejected"
  /\ waitCfg.timeoutMs >= 2
  /\ startedAt >= 1
  /\ Len(attempts) >= 2

LocateFailed == lastLocate # NoRequest /\ ElementIdOf(lastLocate.value) = ""
LocateSucceeded == lastLocate.kind = "json" /\ ElementIdOf(lastLocate.value) # ""
ElementFound == waitCfg.target = "element" \/ LocateSucceeded
ReportedDisplayed == lastDisplayed = Json(JsTrue)

\* C7: wait(until.elementExists(locator)) does not complete on an attempt
\* whose locator resolution failed.
C7_ExistsNotResolvedOnFailedLocate ==
  (waitCfg.condition = "elementExists" /\ waitPc = "resolved") => ~LocateFailed

\* C8: wait(until.elementIsNotVisible(target)) does not complete on an
\* attempt in which the element was found and reported displayed.
C8_NotVisibleNotResolvedWhileDisplayed ==
  (waitCfg.condition = "elementIsNotVisible" /\ waitPc = "resolved") =>
    ~(ElementFound /\ ReportedDisplayed)

\* C9: wait(until.elementIsVisible(target)) resolves only with an element
\* for which the remote end answered displayed = true on that attempt.
C9_VisibleResolvedOnlyWhenDisplayed ==
  (waitCfg.condition = "elementIsVisible" /\ waitPc = "resolved") =>
    (ElementFound /\ ReportedDisplayed)

\* C11: Browser.waitFor(check) resolves only on an attempt in which check
\* returned a truthy value; an attempt in which check returned false, or
\* threw, leads to another poll.
C11_WaitForResolvesOnlyOnTruthy ==
  (waitCfg.condition = "waitFor" /\ waitPc = "resolved") =>
    (~lastCheck.threw /\ Truthy(lastCheck.v))

C24_LateResultDiscarded ==
  waitPc = "resolved" => now < deadline

\* C25: the timeout error embeds the message of the error the condition
\* threw on the final attempt, and no error message when the final attempt
\* returned or no attempt was made.
C25_TimeoutEmbedsFinalAttemptError ==
  waitPc = "rejected" =>
    waitSettled.err.cause =
      IF attempts # <<>> /\ attempts[Len(attempts)].threw
      THEN attempts[Len(attempts)].err ELSE ""

(***************************************************************************)
(* Classic commands on a session or an element.  Each call makes one       *)
(* request; `calls` is the log of the calls made so far: the command, the  *)
(* remote end's answer and what the call ended with towards its caller.    *)
(***************************************************************************)
\* calls of one run that the model follows
MaxCalls == 2


\* String(v)
JsToString(v) ==
  CASE v.t \in {"string", "boolean", "number"} -> v.s
    [] v.t = "undefined" -> "undefined"
    [] v.t = "null" -> "null"
    [] OTHER -> "[object Object]"

\* Driver.navigateTo
NavigateTo(resp) ==
  LET res == HttpSend(resp) IN IF res.threw THEN res ELSE Return(JsUndefined)

\* WebElement.click
Click(resp) ==
  LET res == HttpSend(resp) IN IF res.threw THEN res ELSE Return(JsUndefined)

\* WebElement.getText
GetText(resp) ==
  LET res == HttpSend(resp) IN
  IF res.threw THEN res
  ELSE Return(JsString(JsToString(Coalesce(ValueOf(res), JsEmptyString))))

\* the remote end's answers to a command
TransportFailures == {NetworkError, InvalidJson}
NavigateAnswers == {Json(JsNull), Json(ErrorValue("no such window"))} \cup TransportFailures
ClickAnswers ==
  {Json(JsNull), EmptyBody, Json(ErrorValue("stale element reference")),
   Json(ErrorValue("element click intercepted"))} \cup TransportFailures
TextAnswers ==
  {Json(JsString("clicked")), Json(JsEmptyString),
   Json(ErrorValue("stale element reference"))} \cup TransportFailures

Logged(op, resp, outcome) ==
  Append(calls, [op |-> op, answer |-> resp, outcome |-> outcome])

NavigateToCall ==
  /\ Len(calls) < MaxCalls
  /\ \E resp \in NavigateAnswers : calls' = Logged("navigateTo", resp, NavigateTo(resp))
  /\ UNCHANGED notClassicVars

ClickCall ==
  /\ Len(calls) < MaxCalls
  /\ \E resp \in ClickAnswers : calls' = Logged("click", resp, Click(resp))
  /\ UNCHANGED notClassicVars

GetTextCall ==
  /\ Len(calls) < MaxCalls
  /\ \E resp \in TextAnswers : calls' = Logged("getText", resp, GetText(resp))
  /\ UNCHANGED notClassicVars

IsDisplayedCall ==
  /\ Len(calls) < MaxCalls
  /\ \E resp \in DisplayedAnswers : calls' = Logged("isDisplayed", resp, IsDisplayed(resp))
  /\ UNCHANGED notClassicVars

FindElementCall ==
  /\ Len(calls) < MaxCalls
  /\ \E resp \in LocateAnswers : calls' = Logged("findElement", resp, FindElement(resp))
  /\ UNCHANGED notClassicVars

ClassicInit == calls = <<>>


\* C10: a command that the remote end answered with a well-formed error
\* envelope fails towards its caller; it never completes as if it had
\* succeeded.
C10_ErrorEnvelopeFailsTheCall ==
  \A i \in 1..Len(calls) :
    IsErrorEnvelope(calls[i].answer) => calls[i].outcome.threw

(***************************************************************************)
(* BiDi Connection Multiplexer: BiDiConnection.                            *)
(*                                                                         *)
(* A socket is created by connect() and lives on after the connection has  *)
(* dropped its reference to it: its handlers stay registered and act on    *)
(* the connection object.  sockets[s].state is                             *)
(*   "connecting"  handshake under way                                     *)
(*   "open"        readyState OPEN                                         *)
(*   "aborting"    close() was called during the handshake: 'error' and    *)
(*                 then 'close' will be emitted                            *)
(*   "closing"     close() was called on the open socket: 'close' will be  *)
(*                 emitted                                                 *)
(*   "failed"      'error' was emitted: 'close' will be emitted            *)
(*   "closed"      'close' was emitted                                     *)
(***************************************************************************)
\* sockets one connection object creates
MaxSockets == 2
\* send() calls on one connection object
MaxSends == 2

\* the method of the c-th send() call: the caller alternates between two
MethodOf(c) == IF c % 2 = 1 THEN "session.subscribe" ELSE "browsingContext.navigate"


NoResult == [forMethod |-> "", forId |-> 0]
\* the result the remote end computes for the command it received
ResultFor(cmd) == [forMethod |-> cmd.method, forId |-> cmd.id]

EmptyMap == [i \in {} |-> 0]
Remove(map, key) == [k \in DOMAIN map \ {key} |-> map[k]]

\* (mutant) the flag alone decides
IsConnected_FlagOnly == connected

\* isConnected(): this.connected && this.ws?.readyState === WebSocket.OPEN
IsConnected == connected /\ ws # 0 /\ sockets[ws].state = "open"

\* resolve / reject of a promise: only a pending promise changes
Resolved(p, result, by) ==
  IF p.state = "pending"
  THEN [p EXCEPT !.state = "resolved", !.result = result, !.settledBy = by]
  ELSE p
Rejected(p, error, by) ==
  IF p.state = "pending"
  THEN [p EXCEPT !.state = "rejected", !.error = error, !.settledBy = by]
  ELSE p

\* (mutant) only the first pending command is rejected
RejectAllPending_FirstOnly(proms, pend, error) ==
  [c \in DOMAIN proms |->
     IF \E id \in DOMAIN pend : pend[id] = c /\ \A j \in DOMAIN pend : id <= j
     THEN Rejected(proms[c], error, 0) ELSE proms[c]]

\* rejectAllPending: the promises after `for (const [, p] of this.pending) p.reject(error)`
RejectAllPending(proms, pend, error) ==
  [c \in DOMAIN proms |->
     IF \E id \in DOMAIN pend : pend[id] = c
     THEN Rejected(proms[c], error, 0) ELSE proms[c]]

BidiInit ==
  /\ ws = 0
  /\ messageId = 0
  /\ pending = EmptyMap
  /\ connected = FALSE
  /\ wsUrl = ""
  /\ autoReconnect \in BOOLEAN
  /\ sockets = <<>>
  /\ reconnects = 0
  /\ wire = {}
  /\ promises = <<>>

\* the body of connect(wsUrl) past its early return: a new socket
OpenSocket ==
  /\ Len(sockets) < MaxSockets
  /\ wsUrl' = "ws://remote/session"
  /\ sockets' = Append(sockets, [state |-> "connecting", connect |-> "pending",
                                   userClosed |-> FALSE])
  /\ ws' = Len(sockets) + 1

\* connect(wsUrl), called by the user
Connect ==
  /\ ~(connected /\ ws # 0)
  /\ OpenSocket
  /\ UNCHANGED <<messageId, pending, connected, autoReconnect, reconnects, wire, promises>>
  /\ UNCHANGED notBidiVars

\* the reconnection scheduled by a close handler runs: this.connect(this.wsUrl)
ReconnectFires ==
  /\ reconnects > 0
  /\ reconnects' = reconnects - 1
  /\ IF connected /\ ws # 0
     THEN UNCHANGED <<ws, wsUrl, sockets>>
     ELSE OpenSocket
  /\ UNCHANGED <<messageId, pending, connected, autoReconnect, wire, promises>>
  /\ UNCHANGED notBidiVars

\* the connect timer of socket s fires: reject(timeout)
ConnectTimeout(s) ==
  /\ sockets[s].connect = "pending"
  /\ sockets' = [sockets EXCEPT ![s].connect = "timedOut"]
  /\ UNCHANGED <<ws, messageId, pending, connected, wsUrl, autoReconnect, reconnects,
                 wire, promises>>
  /\ UNCHANGED notBidiVars

\* socket s emits 'open'
SocketOpen(s) ==
  /\ sockets[s].state = "connecting"
  /\ sockets' = [sockets EXCEPT ![s].state = "open",
                   ![s].connect = IF @ = "pending" THEN "resolved" ELSE @]
  /\ connected' = TRUE
  /\ UNCHANGED <<ws, messageId, pending, wsUrl, autoReconnect, reconnects, wire, promises>>
  /\ UNCHANGED notBidiVars

\* socket s emits 'error'
SocketError(s) ==
  /\ sockets[s].state \in {"connecting", "open", "aborting"}
  /\ sockets' = [sockets EXCEPT ![s].state = "failed",
                   ![s].connect = IF @ = "pending" THEN "failed" ELSE @]
  /\ connected' = FALSE
  /\ UNCHANGED <<ws, messageId, pending, wsUrl, autoReconnect, reconnects, wire, promises>>
  /\ UNCHANGED notBidiVars

\* socket s emits 'close': the remote end closed it, or a close or a failure
\* of it has run its course
SocketClose(s) ==
  /\ sockets[s].state \in {"open", "closing", "failed"}
  /\ sockets' = [sockets EXCEPT ![s].state = "closed"]
  /\ connected' = FALSE
  /\ promises' = RejectAllPending(promises, pending, "WebSocket connection closed")
  /\ pending' = EmptyMap
  /\ reconnects' = IF autoReconnect /\ wsUrl # "" THEN reconnects + 1 ELSE reconnects
  /\ wire' = {c \in wire : c.socket # s}
  /\ UNCHANGED <<ws, messageId, wsUrl, autoReconnect>>
  /\ UNCHANGED notBidiVars

\* the body of close()
CloseConnection ==
  IF ws # 0
  THEN /\ sockets' = [sockets EXCEPT ![ws].state =
                        CASE @ = "connecting" -> "aborting"
                          [] @ = "open" -> "closing"
                          [] OTHER -> @,
                      ![ws].userClosed = TRUE]
       /\ ws' = 0
       /\ connected' = FALSE
       /\ promises' = RejectAllPending(promises, pending, "Connection closed")
       /\ pending' = EmptyMap
       /\ UNCHANGED <<messageId, wsUrl, autoReconnect, reconnects, wire>>
  ELSE UNCHANGED bidiVars

\* close(), called by the user while this.ws is set
Close ==
  /\ ws # 0
  /\ CloseConnection
  /\ UNCHANGED notBidiVars

NewPromise(id, method, socket) ==
  [id |-> id, method |-> method, socket |-> socket, state |-> "pending",
   result |-> NoResult, error |-> "", settledBy |-> 0]

\* (mutant) the id is the number of commands in flight, plus one
NextId_FromPending(last) == Cardinality(DOMAIN pending) + 1

\* const id = ++this.messageId
NextId(last) == last + 1

\* send(method, params)
Send ==
  /\ Len(promises) < MaxSends
  /\ LET call == Len(promises) + 1
         method == MethodOf(call)
     IN IF ~IsConnected
        THEN /\ promises' = Append(promises,
                  Rejected(NewPromise(0, method, 0), "BiDi connection not established", 0))
             /\ UNCHANGED <<messageId, pending, wire>>
        ELSE LET id == NextId(messageId) IN
             /\ messageId' = id
             /\ promises' = Append(promises, NewPromise(id, method, ws))
             /\ pending' = (id :> call) @@ pending
             /\ wire' = wire \cup {[socket |-> ws, id |-> id, method |-> method]}
  /\ UNCHANGED <<ws, connected, wsUrl, autoReconnect, sockets, reconnects>>
  /\ UNCHANGED notBidiVars

\* `BiDi command timeout: ${method}`
TimeoutMessage(method) ==
  IF method = "session.subscribe"
  THEN "BiDi command timeout: session.subscribe"
  ELSE "BiDi command timeout: browsingContext.navigate"

\* (mutant) the timer rejects the promise and leaves the pending entry
CommandTimeout_KeepsEntry(id) ==
  /\ id \in DOMAIN pending
  /\ promises[pending[id]].state = "pending"
  /\ promises' = [promises EXCEPT ![pending[id]] =
                    Rejected(@, TimeoutMessage(@.method), 0)]
  /\ UNCHANGED <<ws, messageId, pending, connected, wsUrl, autoReconnect, sockets, reconnects,
                 wire>>
  /\ UNCHANGED notBidiVars

\* the timer of send() fires for command id
CommandTimeout(id) ==
  /\ id \in DOMAIN pending
  /\ pending' = Remove(pending, id)
  /\ promises' = [promises EXCEPT ![pending[id]] =
                    Rejected(@, TimeoutMessage(@.method), 0)]
  /\ UNCHANGED <<ws, messageId, connected, wsUrl, autoReconnect, sockets, reconnects, wire>>
  /\ UNCHANGED notBidiVars

\* (mutant) responses taken to arrive in the order of the commands
PendingFor_Oldest(pend, response) ==
  IF DOMAIN pend = {} THEN 0
  ELSE pend[CHOOSE id \in DOMAIN pend : \A j \in DOMAIN pend : id <= j]

\* handleResponse: this.pending.get(response.id); 0 is undefined
PendingFor(pend, response) ==
  IF response.id \in DOMAIN pend THEN pend[response.id] ELSE 0

\* handleMessage for a message that carries an id: handleResponse
HandleResponse(response) ==
  LET c == PendingFor(pending, response) IN
  IF c = 0
  THEN UNCHANGED <<pending, promises>>
  ELSE /\ pending' = Remove(pending, response.id)
       /\ promises' = [promises EXCEPT ![c] =
            IF response.type = "error"
            THEN Rejected(@, "BiDi error", response.id)
            ELSE Resolved(@, response.result, response.id)]

\* the remote end answers a command it received on socket s; the message
\* arrives on s
RemoteResponds(s) ==
  /\ sockets[s].state \in {"open", "closing"}
  /\ \E cmd \in wire, type \in {"success", "error"} :
       /\ cmd.socket = s
       /\ wire' = wire \ {cmd}
       /\ HandleResponse([id |-> cmd.id, type |-> type, result |-> ResultFor(cmd)])
  /\ UNCHANGED <<ws, messageId, connected, wsUrl, autoReconnect, sockets, reconnects>>
  /\ UNCHANGED notBidiVars

(***************************************************************************)
(* Event listeners and dispatch: on, off, handleEvent.  A listener of the  *)
(* model returns or throws; it does not call back into the connection.     *)
(***************************************************************************)
\* listeners registered on one connection at a time
MaxListeners == 3

Handlers == {"h1", "h2"}
EventMethods == {"log.entryAdded", "network.beforeRequestSent"}
EventKeys == EventMethods \cup {"*"}


Range(seq) == {seq[i] : i \in DOMAIN seq}
Without(seq, x) == SelectSeq(seq, LAMBDA y : y # x)
Count(seq, x) == Cardinality({i \in DOMAIN seq : seq[i] = x})

NoDispatch ==
  [method |-> "", exact |-> <<>>, wildcard |-> <<>>, invoked |-> <<>>,
   threw |-> {}, escaped |-> FALSE]

EventInit ==
  /\ eventHandlers = [k \in EventKeys |-> <<>>]
  /\ registrations = <<>>
  /\ lastDispatch = NoDispatch

RECURSIVE SumLen(_, _)
SumLen(map, keys) ==
  IF keys = {} THEN 0
  ELSE LET k == CHOOSE x \in keys : TRUE IN Len(map[k]) + SumLen(map, keys \ {k})
Listeners == SumLen(eventHandlers, EventKeys)

\* on(event, handler)
On ==
  /\ Listeners < MaxListeners
  /\ \E event \in EventKeys, handler \in Handlers :
       /\ eventHandlers' = [eventHandlers EXCEPT ![event] =
                              IF handler \in Range(@) THEN @ ELSE Append(@, handler)]
       /\ registrations' = IF handler \in Range(eventHandlers[event]) THEN registrations
                           ELSE Append(registrations, [handler |-> handler, key |-> event])
  /\ lastDispatch' = NoDispatch
  /\ UNCHANGED notEventVars

\* off(event, handler), and the unsubscribe function that on() returned
Off ==
  /\ \E event \in EventKeys, handler \in Handlers :
       /\ handler \in Range(eventHandlers[event])
       /\ eventHandlers' = [eventHandlers EXCEPT ![event] = Without(@, handler)]
       /\ registrations' = Without(registrations, [handler |-> handler, key |-> event])
  /\ lastDispatch' = NoDispatch
  /\ UNCHANGED notEventVars

\* (mutant) the handler is called without try/catch
InvokeListener_NoCatch(handler, throwers) ==
  IF handler \in throwers THEN "thrown" ELSE "returned"

\* try { handler(params) } catch (err) { console.error(...) }
InvokeListener(handler, throwers) ==
  IF handler \in throwers THEN "caught" ELSE "returned"

\* for (const handler of handlers) ...: the handlers invoked, tagged with
\* the key they are registered under, and whether an exception escaped
RECURSIVE InvokeAll(_, _, _)
InvokeAll(set, key, throwers) ==
  IF set = <<>> THEN [invoked |-> <<>>, escaped |-> FALSE]
  ELSE IF InvokeListener(Head(set), throwers) = "thrown"
       THEN [invoked |-> <<[handler |-> Head(set), key |-> key]>>, escaped |-> TRUE]
       ELSE LET rest == InvokeAll(Tail(set), key, throwers) IN
            [invoked |-> <<[handler |-> Head(set), key |-> key]>> \o rest.invoked,
             escaped |-> rest.escaped]

\* handleEvent
HandleEvent(method, throwers) ==
  LET exact == InvokeAll(eventHandlers[method], method, throwers)
      wildcard == IF exact.escaped THEN [invoked |-> <<>>, escaped |-> TRUE]
                  ELSE InvokeAll(eventHandlers["*"], "*", throwers)
  IN lastDispatch' =
       [method |-> method, exact |-> eventHandlers[method],
        wildcard |-> eventHandlers["*"],
        invoked |-> exact.invoked \o wildcard.invoked,
        threw |-> throwers,
        escaped |-> wildcard.escaped]

\* an event message arrives on socket s: handleMessage, handleEvent
DeliverEvent(s) ==
  /\ sockets[s].state \in {"open", "closing"}
  /\ \E method \in EventMethods :
       \E throwers \in SUBSET (Range(eventHandlers[method]) \cup Range(eventHandlers["*"])) :
         HandleEvent(method, throwers)
  /\ UNCHANGED <<eventHandlers, registrations>>
  /\ UNCHANGED notEventVars

(***************************************************************************)
(* Claims about the BiDi connection.                                       *)
(***************************************************************************)
\* C1: a send() promise is settled by a response only if the response
\* carries the id assigned to its command, and a resolved promise holds the
\* result the remote end computed for that very command.
C1_SettledByOwnResponse ==
  \A c \in DOMAIN promises :
    /\ promises[c].settledBy # 0 => promises[c].settledBy = promises[c].id
    /\ promises[c].state = "resolved" =>
         /\ promises[c].settledBy = promises[c].id
         /\ promises[c].result = [forMethod |-> promises[c].method, forId |-> promises[c].id]

\* two commands in flight together, the later one answered first
C1_Witness ==
  /\ Len(promises) = 2
  /\ promises[1].state = "pending" /\ promises[1].id # 0
  /\ promises[2].state = "resolved"
  /\ promises[1].socket = promises[2].socket

ClosedErrors == {"WebSocket connection closed", "Connection closed"}
PendingCalls == {pending[id] : id \in DOMAIN pending}

\* C2: when a socket emits 'close' or close() is called, every command
\* pending at that moment is rejected with a connection-closed error and the
\* pending map is empty afterwards; no command is pending on a socket that
\* has closed or that close() was called on.
C2_CloseRejectsAllPending ==
  /\ [](\A id \in DOMAIN pending :
          /\ promises[pending[id]].state = "pending"
          /\ sockets[promises[pending[id]].socket].state \in {"open", "failed"})
  /\ [][((ws # 0 /\ ws' = 0)
          \/ \E s \in DOMAIN sockets : sockets[s].state # "closed" /\ sockets'[s].state = "closed")
        => /\ pending' = EmptyMap
           /\ \A c \in PendingCalls :
                promises'[c].state = "rejected" /\ promises'[c].error \in ClosedErrors]_<<bidiVars>>

\* one command rejected by close(), a later one by the 'close' of its socket
C2_Witness ==
  /\ Len(promises) = 2
  /\ promises[1].error = "Connection closed"
  /\ promises[2].error = "WebSocket connection closed"
  /\ sockets[promises[2].socket].state = "closed"
  /\ pending = EmptyMap

\* C3: for one delivered event, every listener registered for its method
\* name and every wildcard listener is invoked exactly once, nobody else is
\* invoked, and no listener's exception leaves the dispatch.
C3_EveryListenerInvokedOnce ==
  lastDispatch.method # "" =>
    /\ ~lastDispatch.escaped
    /\ \A h \in Range(lastDispatch.exact) :
         Count(lastDispatch.invoked, [handler |-> h, key |-> lastDispatch.method]) = 1
    /\ \A h \in Range(lastDispatch.wildcard) :
         Count(lastDispatch.invoked, [handler |-> h, key |-> "*"]) = 1
    /\ Len(lastDispatch.invoked) = Len(lastDispatch.exact) + Len(lastDispatch.wildcard)

\* two listeners of the event and one wildcard listener; the first throws
C3_Witness ==
  /\ Len(lastDispatch.exact) = 2
  /\ Len(lastDispatch.wildcard) = 1
  /\ lastDispatch.exact[1] \in lastDispatch.threw
  /\ Len(lastDispatch.invoked) = 3

\* the send() calls that were given an id
Commands == {c \in DOMAIN promises : promises[c].id # 0}

\* C30: the ids send() assigns grow strictly from one command to the next,
\* whatever socket the commands were sent on, so no two commands share an
\* id; this.messageId is the latest id, and every pending entry is that of
\* the one command that carries its id.
C30_CommandIdsStrictlyIncrease ==
  /\ \A c, d \in Commands : c < d => promises[c].id < promises[d].id
  /\ \A c \in Commands : promises[c].id <= messageId
  /\ \A id \in DOMAIN pending : pending[id] \in Commands /\ promises[pending[id]].id = id

\* two commands, the second sent on the socket of a later connect, after
\* the first socket was closed
C30_Witness ==
  /\ Len(promises) = 2
  /\ Commands = {1, 2}
  /\ promises[1].socket # promises[2].socket
  /\ sockets[promises[1].socket].state = "closed"
  /\ 2 \in DOMAIN pending

TimeoutErrors ==
  {"BiDi command timeout: session.subscribe", "BiDi command timeout: browsingContext.navigate"}
\* the commands whose answer arrives in this step
Answered == {cmd \in wire \ wire' : sockets' = sockets}
\* the calls whose promise the timer of send() settles in this step
TimedOut ==
  {c \in DOMAIN promises :
     /\ promises[c].state = "pending" /\ promises'[c].state # "pending"
     /\ wire' = wire /\ sockets' = sockets /\ ws' = ws}

\* C21: the timer of a command rejects its promise with the timeout error
\* that names its method and removes its pending entry, and changes no other
\* command; a response that arrives for an id without a pending entry, as
\* that of a timed-out command does, changes no promise and no entry.
C21_TimeoutRejectsAndEvicts ==
  /\ [](\A c \in DOMAIN promises :
          promises[c].error \in TimeoutErrors => \A id \in DOMAIN pending : pending[id] # c)
  /\ [][/\ \A c \in TimedOut :
            /\ promises'[c].state = "rejected"
            /\ promises'[c].error = TimeoutMessage(promises[c].method)
            /\ promises[c].method \in {"session.subscribe", "browsingContext.navigate"}
            /\ promises[c].id \notin DOMAIN pending'
            /\ \A d \in DOMAIN promises \ {c} : promises'[d] = promises[d]
            /\ \A id \in DOMAIN pending \ {promises[c].id} :
                 id \in DOMAIN pending' /\ pending'[id] = pending[id]
        /\ \A cmd \in Answered :
            cmd.id \notin DOMAIN pending => (promises' = promises /\ pending' = pending)
       ]_<<bidiVars>>

\* the first command timed out and was answered afterwards, on a socket
\* that is still open, while the second command is pending
C21_Witness ==
  /\ Len(promises) = 2
  /\ promises[1].error \in TimeoutErrors
  /\ sockets[promises[1].socket].state = "open"
  /\ \A cmd \in wire : cmd.id # promises[1].id
  /\ promises[2].state = "pending" /\ promises[2].id # 0

\* the place of a listener in the order of registration
Position(seq, x) == CHOOSE i \in DOMAIN seq : seq[i] = x

\* what send() throws when isConnected() is false
NotEstablished == "BiDi connection not established"

\* C31: a send() call made while the connection is not connected (the flag
\* is off, there is no socket, or the socket is not open) is rejected with
\* 'BiDi connection not established', and it leaves the id counter, the
\* pending map, the socket and what the remote end has received as they were.
C31_SendNotConnectedChangesNothing ==
  [][(Len(promises') = Len(promises) + 1
        /\ ~(connected /\ ws # 0 /\ sockets[ws].state = "open"))
     => /\ promises'[Len(promises')].state = "rejected"
        /\ promises'[Len(promises')].error = NotEstablished
        /\ promises'[Len(promises')].id = 0
        /\ \A c \in DOMAIN promises : promises'[c] = promises[c]
        /\ messageId' = messageId
        /\ pending' = pending
        /\ wire' = wire
        /\ <<ws, connected, sockets, reconnects>>' = <<ws, connected, sockets, reconnects>>
    ]_<<bidiVars>>

\* a command was sent and is still pending when the connection is no
\* longer connected, and the send() call after it was refused
C31_Witness ==
  /\ Len(promises) = 2
  /\ promises[1].id = 1 /\ 1 \in DOMAIN pending
  /\ promises[2].error = NotEstablished
  /\ messageId = 1
  /\ Cardinality(wire) = 1

\* C32: the 'close' event of a socket that close() has closed schedules no
\* reconnection, so after close() a socket is only created by the caller's
\* next connect().
C32_CloseNeverReconnects ==
  [][\A s \in DOMAIN sockets :
       (sockets[s].userClosed /\ sockets[s].state # "closed" /\ sockets'[s].state = "closed")
         => reconnects' = reconnects]_<<bidiVars>>

\* C33: the 'close' event of a socket that close() has closed, emitted
\* when a later connect() has given the connection another socket, leaves
\* the connected flag, the pending commands and their promises as they were.
C33_StaleCloseChangesNothing ==
  [][\A s \in DOMAIN sockets :
       (/\ sockets[s].userClosed
        /\ sockets[s].state # "closed" /\ sockets'[s].state = "closed"
        /\ ws # 0 /\ s # ws)
         => (connected' = connected /\ pending' = pending /\ promises' = promises)
    ]_<<bidiVars>>

\* C34: the connection is connected only through a socket whose connect()
\* call resolved: once connect() was rejected by its timer or by 'error',
\* the socket it created never makes the connection connected.
C34_RejectedConnectStaysDisconnected ==
  IsConnected => sockets[ws].connect = "resolved"

\* C23: for one event, its exact-name listeners and the wildcard listeners
\* are invoked in the order in which they were registered.
C23_InvokedInRegistrationOrder ==
  lastDispatch.method # "" =>
    \A i, j \in DOMAIN lastDispatch.invoked :
      i < j => Position(registrations, lastDispatch.invoked[i])
                 < Position(registrations, lastDispatch.invoked[j])

(***************************************************************************)
(* Network interception: NetworkInterceptor.  An intercept() call          *)
(* subscribes on first use, asks the remote end for an intercept and       *)
(* stores the handler under the id the remote end answers with.  The       *)
(* remote end lists, in each network.beforeRequestSent event, the          *)
(* intercepts the request matches, in the order it created them.  Commands *)
(* are answered in the order they were sent.                               *)
(***************************************************************************)
\* intercept() calls of one run that the model follows
MaxIntercepts == 2
\* removeIntercept() calls awaiting their answer together
MaxRemovals == 1

\* Map.set(id, value): a new key goes to the end, a known key keeps its place
SetId(registry, id) == IF id \in Range(registry) THEN registry ELSE Append(registry, id)

NoBlockedRequest ==
  [blocked |-> FALSE, intercepts |-> <<>>, registered |-> <<>>, runs |-> <<>>,
   escaped |-> FALSE]

\* removeAllIntercepts() has not been called
NoRemoveAll == [pc |-> "idle", ids |-> <<>>, sent |-> <<>>]

\* a pending command of intercept() call c (session.subscribe, then
\* network.addIntercept), and a pending network.removeIntercept for an id
\* with the answer the remote end gives it; fromAll: sent by
\* removeAllIntercepts
CallCommand(c) == [call |-> c, remove |-> 0, ok |-> TRUE, fromAll |-> FALSE]
RemoveCommand(id, ok, fromAll) == [call |-> 0, remove |-> id, ok |-> ok, fromAll |-> fromAll]

NetInit ==
  /\ subscribed = FALSE
  /\ netListeners = 0
  /\ interceptCalls = <<>>
  /\ remoteIntercepts = <<>>
  /\ netPending = <<>>
  /\ handlers = <<>>
  /\ interceptRules = <<>>
  /\ removeAll = NoRemoveAll
  /\ request = NoBlockedRequest

\* network.addIntercept goes out for call c: the remote end creates the
\* intercept (its id is the call's number) or refuses
SendAddIntercept(cs, c, created) ==
  /\ interceptCalls' = [cs EXCEPT ![c] = [pc |-> "adding", id |-> IF created THEN c ELSE 0]]
  /\ remoteIntercepts' = IF created THEN Append(remoteIntercepts, c) ELSE remoteIntercepts

\* intercept(patterns, handler) up to its first pending command: initialize()
\* returns at once when subscribed, else it sends session.subscribe; then
\* network.addIntercept is sent
InterceptCall ==
  /\ Len(interceptCalls) < MaxIntercepts
  /\ LET c == Len(interceptCalls) + 1
         called == Append(interceptCalls, [pc |-> "subscribing", id |-> 0])
     IN /\ IF subscribed
           THEN \E created \in BOOLEAN : SendAddIntercept(called, c, created)
           ELSE /\ interceptCalls' = called
                /\ UNCHANGED remoteIntercepts
        /\ netPending' = Append(netPending, CallCommand(c))
  /\ UNCHANGED <<subscribed, netListeners, handlers, interceptRules, removeAll, request>>
  /\ UNCHANGED notNetVars

\* session.subscribe is answered: initialize() registers its listener and
\* sets this.subscribed, and intercept() goes on to send network.addIntercept;
\* an error answer ends the intercept() call
SubscribeAnswered ==
  /\ netPending # <<>>
  /\ Head(netPending).call # 0
  /\ interceptCalls[Head(netPending).call].pc = "subscribing"
  /\ LET c == Head(netPending).call IN
       \E ok \in BOOLEAN, created \in BOOLEAN :
         IF ok
         THEN /\ netListeners' = netListeners + 1
              /\ subscribed' = TRUE
              /\ SendAddIntercept(interceptCalls, c, created)
              /\ netPending' = Append(Tail(netPending), CallCommand(c))
         ELSE /\ created
              /\ interceptCalls' = [interceptCalls EXCEPT ![c] = [pc |-> "failed", id |-> 0]]
              /\ netPending' = Tail(netPending)
              /\ UNCHANGED <<netListeners, subscribed, remoteIntercepts>>
  /\ UNCHANGED <<handlers, interceptRules, removeAll, request>>
  /\ UNCHANGED notNetVars

\* network.addIntercept is answered: this.intercepts.set(interceptId, rule)
\* and this.handlers.set(interceptId, handler); an error answer ends the
\* intercept() call
AddInterceptAnswered ==
  /\ netPending # <<>>
  /\ Head(netPending).call # 0
  /\ interceptCalls[Head(netPending).call].pc = "adding"
  /\ LET c == Head(netPending).call IN
       IF interceptCalls[c].id # 0
       THEN /\ interceptRules' = SetId(interceptRules, interceptCalls[c].id)
            /\ handlers' = SetId(handlers, interceptCalls[c].id)
            /\ interceptCalls' = [interceptCalls EXCEPT ![c].pc = "registered"]
       ELSE /\ UNCHANGED <<interceptRules, handlers>>
            /\ interceptCalls' = [interceptCalls EXCEPT ![c].pc = "failed"]
  /\ netPending' = Tail(netPending)
  /\ UNCHANGED <<subscribed, netListeners, remoteIntercepts, removeAll, request>>
  /\ UNCHANGED notNetVars

\* removeIntercept(interceptId) with its answer, for a caller that makes no
\* other call meanwhile: the remote end drops the intercept, then
\* this.intercepts.delete(interceptId) and this.handlers.delete(interceptId)
RemoveIntercept ==
  /\ netPending = <<>>
  /\ \E id \in Range(handlers) :
       /\ remoteIntercepts' = Without(remoteIntercepts, id)
       /\ interceptRules' = Without(interceptRules, id)
       /\ handlers' = Without(handlers, id)
  /\ UNCHANGED <<subscribed, netListeners, interceptCalls, netPending, removeAll, request>>
  /\ UNCHANGED notNetVars

\* network.removeIntercept goes out for id: the remote end drops the
\* intercept and will answer with a result, or it refuses (it holds no such
\* intercept, or the command fails) and will answer with an error
SendRemoveIntercept(queue, id, ok, fromAll) ==
  /\ ok => id \in Range(remoteIntercepts)
  /\ remoteIntercepts' = IF ok THEN Without(remoteIntercepts, id) ELSE remoteIntercepts
  /\ netPending' = Append(queue, RemoveCommand(id, ok, fromAll))

\* the network.removeIntercept commands a caller of removeIntercept awaits
UserRemovals == SelectSeq(netPending, LAMBDA cmd : cmd.remove # 0 /\ ~cmd.fromAll)

\* removeIntercept(interceptId), called with an id intercept() returned, up
\* to its await
RemoveInterceptCall ==
  /\ Len(UserRemovals) < MaxRemovals
  /\ \E id \in Range(interceptRules), ok \in BOOLEAN :
       SendRemoveIntercept(netPending, id, ok, FALSE)
  /\ UNCHANGED <<subscribed, netListeners, interceptCalls, handlers, interceptRules, removeAll,
                 request>>
  /\ UNCHANGED notNetVars

\* removeAllIntercepts() up to its first await: ids = [...this.intercepts.keys()],
\* and removeIntercept(ids[0]) when there is one
RemoveAllCall ==
  /\ removeAll.pc = "idle"
  /\ IF interceptRules = <<>>
     THEN /\ removeAll' = [pc |-> "resolved", ids |-> <<>>, sent |-> <<>>]
          /\ UNCHANGED <<remoteIntercepts, netPending>>
     ELSE /\ removeAll' = [pc |-> "removing", ids |-> interceptRules,
                           sent |-> <<interceptRules[1]>>]
          /\ \E ok \in BOOLEAN : SendRemoveIntercept(netPending, interceptRules[1], ok, TRUE)
  /\ UNCHANGED <<subscribed, netListeners, interceptCalls, handlers, interceptRules, request>>
  /\ UNCHANGED notNetVars

\* for (const id of ids): the id after those already sent, 0 at the end
NextToRemove(all) ==
  IF Len(all.sent) < Len(all.ids) THEN all.ids[Len(all.sent) + 1] ELSE 0

\* (mutant) the answer is not looked at
Succeeded_Always(cmd) == TRUE

\* await this.connection.send('network.removeIntercept', ...): goes on after
\* a result, throws after an error
Succeeded(cmd) == cmd.ok

\* Map.delete(id)
DeleteId(registry, id) == Without(registry, id)

\* network.removeIntercept is answered.  A result: removeIntercept deletes
\* the id from this.intercepts and this.handlers.  An error: the await
\* throws and nothing is deleted.  When the command was sent by
\* removeAllIntercepts, its loop goes on with the next id or ends, and an
\* error rejects removeAllIntercepts.
RemoveInterceptAnswered ==
  /\ netPending # <<>>
  /\ Head(netPending).remove # 0
  /\ LET cmd == Head(netPending)
         next == NextToRemove(removeAll)
     IN /\ IF Succeeded(cmd)
           THEN /\ interceptRules' = DeleteId(interceptRules, cmd.remove)
                /\ handlers' = DeleteId(handlers, cmd.remove)
           ELSE UNCHANGED <<interceptRules, handlers>>
        /\ IF ~cmd.fromAll
           THEN /\ netPending' = Tail(netPending)
                /\ UNCHANGED <<removeAll, remoteIntercepts>>
           ELSE IF ~cmd.ok
           THEN /\ removeAll' = [removeAll EXCEPT !.pc = "rejected"]
                /\ netPending' = Tail(netPending)
                /\ UNCHANGED remoteIntercepts
           ELSE IF next # 0
           THEN /\ removeAll' = [removeAll EXCEPT !.sent = Append(@, next)]
                /\ \E ok \in BOOLEAN : SendRemoveIntercept(Tail(netPending), next, ok, TRUE)
           ELSE /\ removeAll' = [removeAll EXCEPT !.pc = "resolved"]
                /\ netPending' = Tail(netPending)
                /\ UNCHANGED remoteIntercepts
  /\ UNCHANGED <<subscribed, netListeners, interceptCalls, request>>
  /\ UNCHANGED notNetVars

\* continueRequest(requestId) and provideResponse(requestId, result): the
\* command sent
ContinueRequest == [method |-> "network.continueRequest", params |-> {"request"}]
ProvideResponse == [method |-> "network.provideResponse", params |-> {"request", "response"}]

\* (mutant) the last of the event's intercepts that has a handler
RECURSIVE FindHandler_Last(_, _)
FindHandler_Last(intercepts, hs) ==
  IF intercepts = <<>> THEN 0
  ELSE IF FindHandler_Last(Tail(intercepts), hs) # 0
       THEN FindHandler_Last(Tail(intercepts), hs)
       ELSE IF Head(intercepts) \in Range(hs) THEN Head(intercepts) ELSE 0

\* for (const interceptId of event.intercepts) { handler = this.handlers.get(interceptId);
\* if (!handler) continue; ... return }: the first id that has a handler, 0 when none has
RECURSIVE FindHandler(_, _)
FindHandler(intercepts, hs) ==
  IF intercepts = <<>> THEN 0
  ELSE IF Head(intercepts) \in Range(hs) THEN Head(intercepts)
       ELSE FindHandler(Tail(intercepts), hs)

\* one run of handleBeforeRequestSent: where it stands, the handler it
\* invoked (0: none), what the handler ended with, the commands the run has
\* sent, and what rejected the listener's promise ("": nothing)
NewRun(pc, handler, sent) ==
  [pc |-> pc, handler |-> handler, outcome |-> "", sent |-> sent, rejectedWith |-> ""]

\* handleBeforeRequestSent up to its first await
StartRun(blocked, intercepts, hs) ==
  IF ~blocked \/ Len(intercepts) = 0
  THEN NewRun("done", 0, <<>>)
  ELSE IF FindHandler(intercepts, hs) # 0
       THEN NewRun("handler", FindHandler(intercepts, hs), <<>>)
       ELSE NewRun("finalAwait", 0, <<ContinueRequest>>)

\* the remote end sends network.beforeRequestSent for a request: every
\* registered listener starts handleBeforeRequestSent.  The listener is an
\* async function, so nothing it does throws into handleEvent.
BeforeRequestSent ==
  /\ netListeners > 0
  /\ \A i \in DOMAIN request.runs : request.runs[i].pc = "done"
  /\ \E blocked \in BOOLEAN, matching \in SUBSET Range(remoteIntercepts) :
       LET intercepts == SelectSeq(remoteIntercepts, LAMBDA x : x \in matching)
       IN request' = [blocked |-> blocked, intercepts |-> intercepts,
                      registered |-> handlers,
                      runs |-> [i \in 1..netListeners |->
                                  StartRun(blocked, intercepts, handlers)],
                      escaped |-> FALSE]
  /\ UNCHANGED <<subscribed, netListeners, interceptCalls, remoteIntercepts, netPending,
                 handlers, interceptRules, removeAll>>
  /\ UNCHANGED notNetVars

\* (mutant) a catch block that gives up instead of continuing the request
CatchBlock_NoContinue(run, cause) ==
  [run EXCEPT !.pc = "done", !.rejectedWith = cause]

\* catch (err) { console.error(...); await this.continueRequest(requestId); return }
CatchBlock(run, cause) ==
  [run EXCEPT !.pc = "catchAwait", !.sent = Append(run.sent, ContinueRequest)]

\* the try block after `await handler(interceptedRequest)` has settled
AfterHandler(run, outcome) ==
  CASE outcome = "mock" ->
         [run EXCEPT !.pc = "tryAwait", !.outcome = outcome,
                     !.sent = Append(run.sent, ProvideResponse)]
    [] outcome = "nothing" ->
         [run EXCEPT !.pc = "tryAwait", !.outcome = outcome,
                     !.sent = Append(run.sent, ContinueRequest)]
    [] OTHER -> CatchBlock([run EXCEPT !.outcome = outcome], "handler")

\* what handlers do: return a mock response, return nothing, throw (or reject)
HandlerOutcomes == {"mock", "nothing", "threw"}

HandlerSettles ==
  /\ \E i \in DOMAIN request.runs, outcome \in HandlerOutcomes :
       /\ request.runs[i].pc = "handler"
       /\ request' = [request EXCEPT !.runs[i] = AfterHandler(request.runs[i], outcome)]
  /\ UNCHANGED <<subscribed, netListeners, interceptCalls, remoteIntercepts, netPending,
                 handlers, interceptRules, removeAll>>
  /\ UNCHANGED notNetVars

\* the awaited provideResponse / continueRequest settles: a result ends the
\* run; an error inside the try block enters the catch block, an error
\* elsewhere rejects the listener's promise
AfterAnswer(run, ok) ==
  IF ok THEN [run EXCEPT !.pc = "done"]
  ELSE IF run.pc = "tryAwait" THEN CatchBlock(run, "command")
       ELSE [run EXCEPT !.pc = "done", !.rejectedWith = "command"]

CommandAnswered ==
  /\ \E i \in DOMAIN request.runs, ok \in BOOLEAN :
       /\ request.runs[i].pc \in {"tryAwait", "catchAwait", "finalAwait"}
       /\ request' = [request EXCEPT !.runs[i] = AfterAnswer(request.runs[i], ok)]
  /\ UNCHANGED <<subscribed, netListeners, interceptCalls, remoteIntercepts, netPending,
                 handlers, interceptRules, removeAll>>
  /\ UNCHANGED notNetVars

(***************************************************************************)
(* Claims about network interception, checked under SpecNet.               *)
(***************************************************************************)
RunsDone == \A i \in DOMAIN request.runs : request.runs[i].pc = "done"
\* how many resolving commands have been sent for the request
RECURSIVE SentCount(_)
SentCount(n) == IF n = 0 THEN 0 ELSE SentCount(n - 1) + Len(request.runs[n].sent)
ProvideResponseSent ==
  \E i \in DOMAIN request.runs : \E k \in DOMAIN request.runs[i].sent :
    request.runs[i].sent[k].method = "network.provideResponse"

\* C12: for a blocked event that carries at least one intercept id, never
\* more than one resolving command (provideResponse or continueRequest) has
\* been sent for the request, and exactly one once the pipeline is through.
C12_ExactlyOneResolvingCommand ==
  (request.blocked /\ Len(request.intercepts) > 0) =>
    /\ SentCount(Len(request.runs)) <= 1
    /\ RunsDone => SentCount(Len(request.runs)) = 1

\* C13: a pipeline run whose handler threw (or rejected) has sent one
\* continueRequest without modifications and nothing else; when the handler
\* threw in every run, no provideResponse was sent for the request; the
\* handler's exception neither leaves the listener nor reaches handleEvent.
C13_HandlerFailureContinuesUnmodified ==
  /\ ~request.escaped
  /\ \A i \in DOMAIN request.runs :
       request.runs[i].outcome = "threw" =>
         /\ request.runs[i].sent =
              <<[method |-> "network.continueRequest", params |-> {"request"}]>>
         /\ request.runs[i].rejectedWith # "handler"
  /\ (\A i \in DOMAIN request.runs : request.runs[i].outcome = "threw") =>
       ~ProvideResponseSent

C13_Witness ==
  /\ request.blocked
  /\ Len(request.runs) = 1
  /\ request.runs[1].outcome = "threw"
  /\ request.runs[1].pc = "done"
  /\ request.runs[1].rejectedWith = ""

\* the intercepts of the event that had a handler when it arrived, in the
\* order they were registered
RegisteredMatching ==
  SelectSeq(request.registered, LAMBDA h : h \in Range(request.intercepts))

\* C14: when a blocked request matches two or more registered intercepts,
\* the handler invoked for it is the one registered first, and no handler
\* of another matching intercept is invoked.
C14_FirstRegisteredHandlerOnly ==
  (request.blocked /\ Len(RegisteredMatching) >= 2) =>
    /\ Len(request.runs) >= 1
    /\ \A i \in DOMAIN request.runs : request.runs[i].handler = RegisteredMatching[1]

C14_Witness ==
  /\ request.blocked
  /\ Len(RegisteredMatching) >= 2
  /\ Len(request.runs) = 1
  /\ request.runs[1].pc = "done"
  /\ request.runs[1].outcome = "mock"

\* C35: whatever intercept() calls are made and however they overlap, at
\* most one session.subscribe is awaited at a time, at most one
\* network.beforeRequestSent listener is registered (one once subscribed),
\* and a request event starts the pipeline once.
C35_SubscribesAndListensOnce ==
  /\ Cardinality({c \in DOMAIN interceptCalls : interceptCalls[c].pc = "subscribing"}) <= 1
  /\ netListeners <= 1
  /\ subscribed => netListeners = 1
  /\ Len(request.runs) <= 1

\* C37: every intercept id a blocked request event carries (an intercept
\* the remote end has created) had a handler when the event arrived, so the
\* pipeline invoked a handler and did not continue the request for want of
\* one.
C37_NoWindowWithoutHandler ==
  (request.blocked /\ Len(request.intercepts) > 0) =>
    /\ \A id \in Range(request.intercepts) : id \in Range(request.registered)
    /\ \A i \in DOMAIN request.runs : request.runs[i].handler # 0

\* the registries change in this step
RegistriesChange == interceptRules' # interceptRules \/ handlers' # handlers

\* C36: this.intercepts and this.handlers hold the same ids, each once; they
\* change only when the answer to a command arrives: an id is added by the
\* result of network.addIntercept that carries it, to both, and an id is
\* removed by the result of network.removeIntercept for it, from both, when
\* the remote end has dropped the intercept; an error answer changes neither.
C36_RegistriesHoldSameIds ==
  /\ [](/\ Range(interceptRules) = Range(handlers)
        /\ Len(interceptRules) = Cardinality(Range(interceptRules))
        /\ Len(handlers) = Cardinality(Range(handlers))
        /\ Range(handlers) \subseteq Range(remoteIntercepts)
                                 \cup {cmd.remove : cmd \in Range(netPending)})
  /\ [][RegistriesChange =>
          /\ netPending # <<>>
          /\ LET cmd == Head(netPending) IN
               IF cmd.call # 0
               THEN /\ interceptCalls[cmd.call].pc = "adding"
                    /\ interceptCalls[cmd.call].id # 0
                    /\ interceptCalls[cmd.call].id \in Range(remoteIntercepts)
                                                      \cup {c.remove : c \in Range(netPending)}
                    /\ interceptRules' = Append(interceptRules, interceptCalls[cmd.call].id)
                    /\ handlers' = Append(handlers, interceptCalls[cmd.call].id)
               ELSE /\ cmd.ok
                    /\ cmd.remove \notin Range(remoteIntercepts)
                    /\ interceptRules' = Without(interceptRules, cmd.remove)
                    /\ handlers' = Without(handlers, cmd.remove)
       ]_<<netVars>>

\* two intercepts are registered; a removeIntercept for the first was
\* refused and left it in place, and a second one for it is awaited
C36_Witness ==
  /\ Len(handlers) = 2
  /\ netPending # <<>>
  /\ Head(netPending).remove = handlers[1]
  /\ \A c \in DOMAIN interceptCalls : interceptCalls[c].pc = "registered"
  /\ handlers[1] \in Range(remoteIntercepts)

\* C38: when removeAllIntercepts() resolves, both registries are empty; and
\* once it has resolved, network.removeIntercept has been sent for every id
\* that was registered when it was called, none of those ids is in either
\* registry, and a blocked request event that carries them finds no handler.
C38_RemoveAllLeavesNothing ==
  /\ [](removeAll.pc = "resolved" =>
          /\ Range(removeAll.ids) \subseteq Range(removeAll.sent)
          /\ Range(removeAll.ids) \cap (Range(interceptRules) \cup Range(handlers)) = {}
          /\ StartRun(TRUE, removeAll.ids, handlers).handler = 0)
  /\ [][(removeAll.pc # "resolved" /\ removeAll'.pc = "resolved")
          => (interceptRules' = <<>> /\ handlers' = <<>>)]_<<netVars>>

(***************************************************************************)
(* Session state: SessionStateManager, and the browser's cookie store it   *)
(* reads and writes.  Strings that are parsed or encoded (cookie values,   *)
(* document.cookie) are sequences of characters.                           *)
(***************************************************************************)
\* cookies in the browser before the calls the model follows
MaxCookies == 1

Hostname == "localhost"
DocumentDir == "/app"
CookieNames == {"sid", "pref"}
CookiePaths == {"/", "/app"}
CookieValues == {<<"a", "b">>, <<"a", "=">>}
CookieKeys == [name : CookieNames, domain : {Hostname}, path : CookiePaths]
CookieAttrs == [value : CookieValues, secure : {"false"}, sameSite : {"lax", "none"}]
Jars == UNION {[K -> CookieAttrs] : K \in {S \in SUBSET CookieKeys : Cardinality(S) <= MaxCookies}}

\* a section of a SessionState that is not there
Absent == [present |-> FALSE, v |-> <<>>]
Present(v) == [present |-> TRUE, v |-> v]
NoState == [cookies |-> Absent, localStorage |-> Absent, sessionStorage |-> Absent]
DefaultOptions ==
  [includeCookies |-> "undefined", includeLocalStorage |-> "undefined",
   includeSessionStorage |-> "undefined"]
NoSet == [cookies |-> <<>>, sent |-> <<>>]

StorageInit ==
  /\ jar \in Jars
  /\ pageStorage \in [localStorage : {"{}", "data"}, sessionStorage : {"{}", "data"}]
  /\ bidiMode \in BOOLEAN
  /\ storagePc = "start"
  /\ file = NoState
  /\ before = EmptyMap
  /\ snapshot = [options |-> DefaultOptions, state |-> NoState]
  /\ lastSet = NoSet

\* the orders in which the elements of a set can be listed
Orders(S) == {o \in [1..Cardinality(S) -> S] : \A x \in S : \E i \in DOMAIN o : o[i] = x}

\* ---- the browser ----
\* the cookie stored under `key` as the remote end reports it (network.Cookie)
NetworkCookie(key, attrs) ==
  [name |-> key.name, value |-> [type |-> "string", value |-> attrs.value],
   domain |-> key.domain, path |-> key.path, secure |-> attrs.secure,
   sameSite |-> attrs.sameSite, expiry |-> "undefined"]

\* storage.setCookie: the remote end stores the cookie under its name, domain and path
StoreCookie(j, c) ==
  LET key == [name |-> c.name, domain |-> c.domain,
              path |-> IF c.path = "undefined" THEN "/" ELSE c.path]
      attrs == [value |-> c.value.value,
                secure |-> IF c.secure = "true" THEN "true" ELSE "false",
                sameSite |-> IF c.sameSite \in {"undefined", "default"} THEN "lax"
                             ELSE c.sameSite]
  IN [k \in DOMAIN j \cup {key} |-> IF k = key THEN attrs ELSE j[k]]

\* "name=value", one entry of the string document.cookie evaluates to
CookiePair(name, value) == <<name, "=">> \o value

\* the first "=" of a pair
FirstEquals(pair) ==
  CHOOSE i \in 1..Len(pair) : pair[i] = "=" /\ \A k \in 1..(i - 1) : pair[k] # "="

\* the assignment document.cookie = "name=value; path=...; domain=...; secure;
\* samesite=...; expires=...": the browser splits the pair at its first "=",
\* stores the value as written, and drops the cookie when `expires` is past
WriteDocumentCookie(j, str) ==
  LET key == [name |-> str.pair[1], domain |-> str.domain,
              path |-> IF str.path = "" THEN DocumentDir ELSE str.path]
      attrs == [value |-> SubSeq(str.pair, FirstEquals(str.pair) + 1, Len(str.pair)),
                secure |-> IF str.secure THEN "true" ELSE "false",
                sameSite |-> IF str.samesite = "" THEN "lax" ELSE str.samesite]
  IN IF str.expired THEN [k \in DOMAIN j \ {key} |-> j[k]]
     ELSE [k \in DOMAIN j \cup {key} |-> IF k = key THEN attrs ELSE j[k]]

\* ---- cookies over BiDi ----
\* getCookiesBiDi: result.cookies, in the order the remote end lists them
GetCookiesBiDi(j, order) == [i \in DOMAIN order |-> NetworkCookie(order[i], j[order[i]])]

\* (mutant) the sameSite of the cookie is sent as it is
SameSiteToSend_AsGiven(cookie) == cookie.sameSite

\* let sameSite = cookie.sameSite; if (sameSite === 'none' && !secure) sameSite = 'lax'
SameSiteToSend(cookie) ==
  IF cookie.sameSite = "none" /\ cookie.secure # "true" THEN "lax" ELSE cookie.sameSite

\* the partialCookie of one storage.setCookie command
PartialCookie(cookie) ==
  [name |-> cookie.name, value |-> cookie.value, domain |-> cookie.domain,
   path |-> cookie.path, secure |-> cookie.secure, sameSite |-> SameSiteToSend(cookie),
   expiry |-> cookie.expiry]

\* setCookiesBiDi: one command per cookie, in order; the store afterwards
RECURSIVE SetCookiesBiDi(_, _)
SetCookiesBiDi(j, cookies) ==
  IF cookies = <<>> THEN [jar |-> j, sent |-> <<>>]
  ELSE LET rest == SetCookiesBiDi(StoreCookie(j, PartialCookie(Head(cookies))), Tail(cookies))
       IN [jar |-> rest.jar, sent |-> <<PartialCookie(Head(cookies))>> \o rest.sent]

\* ---- cookies over Classic scripts ----
\* encodeURIComponent, on the characters cookie values are made of here
EncodeChar(c) ==
  CASE c = "%" -> <<"%", "2", "5">>
    [] c = "=" -> <<"%", "3", "D">>
    [] OTHER -> <<c>>
RECURSIVE EncodeURIComponent(_)
EncodeURIComponent(str) ==
  IF str = <<>> THEN <<>> ELSE EncodeChar(Head(str)) \o EncodeURIComponent(Tail(str))

\* getCookiesClassic: document.cookie split into its pairs, each pair split
\* at "=" (the name, and the rest joined again); domain, path, secure and
\* sameSite are not read from the cookie but filled in
ParsePair(pair) ==
  [name |-> pair[1],
   value |-> [type |-> "string",
              value |-> SubSeq(pair, FirstEquals(pair) + 1, Len(pair))],
   domain |-> Hostname, path |-> "/", secure |-> "false", sameSite |-> "lax",
   expiry |-> "undefined"]
GetCookiesClassic(j, order) ==
  [i \in DOMAIN order |-> ParsePair(CookiePair(order[i].name, j[order[i]].value))]

\* the string setCookiesClassic assigns to document.cookie for one cookie
ClassicCookieString(cookie) ==
  [pair |-> CookiePair(cookie.name, EncodeURIComponent(cookie.value.value)),
   path |-> IF cookie.path = "undefined" THEN "" ELSE cookie.path,
   domain |-> cookie.domain,
   secure |-> cookie.secure = "true",
   samesite |-> IF cookie.sameSite = "undefined" THEN "" ELSE cookie.sameSite,
   expired |-> FALSE]

RECURSIVE SetCookiesClassic(_, _)
SetCookiesClassic(j, cookies) ==
  IF cookies = <<>> THEN j
  ELSE SetCookiesClassic(WriteDocumentCookie(j, ClassicCookieString(Head(cookies))),
                         Tail(cookies))

\* the string clearCookies assigns to document.cookie for one cookie
ClassicDeleteString(cookie) ==
  [pair |-> CookiePair(cookie.name, <<>>), path |-> "/", domain |-> cookie.domain,
   secure |-> FALSE, samesite |-> "", expired |-> TRUE]

RECURSIVE ClearCookiesClassic(_, _)
ClearCookiesClassic(j, cookies) ==
  IF cookies = <<>> THEN j
  ELSE ClearCookiesClassic(WriteDocumentCookie(j, ClassicDeleteString(Head(cookies))),
                           Tail(cookies))

\* ---- the snapshot ----
\* getCookies(): BiDi when connected, else Classic
GetCookies(j, order) ==
  IF bidiMode THEN GetCookiesBiDi(j, order) ELSE GetCookiesClassic(j, order)

\* what getLocalStorage / getSessionStorage end with: the script fails, or
\* it returns the area of the current origin ("{}" when it is empty)
StorageReads(area) == {"throws", pageStorage[area]}

TriState == {"undefined", "true", "false"}
StorageStateOptions ==
  [includeCookies : TriState, includeLocalStorage : TriState,
   includeSessionStorage : TriState]

\* (mutant) sessionStorage captured unless it is switched off
GetState_SessionByDefault(options, cookies, ls, ss) ==
  [cookies |-> IF options.includeCookies # "false" THEN Present(cookies) ELSE Absent,
   localStorage |-> IF options.includeLocalStorage # "false" /\ ls # "throws"
                    THEN Present(ls) ELSE Absent,
   sessionStorage |-> IF options.includeSessionStorage # "false" /\ ss # "throws"
                      THEN Present(ss) ELSE Absent]

\* getState(options)
GetState(options, cookies, ls, ss) ==
  [cookies |-> IF options.includeCookies # "false" THEN Present(cookies) ELSE Absent,
   localStorage |-> IF options.includeLocalStorage # "false" /\ ls # "throws"
                    THEN Present(ls) ELSE Absent,
   sessionStorage |-> IF options.includeSessionStorage = "true" /\ ss # "throws"
                      THEN Present(ss) ELSE Absent]

\* JSON.stringify of a cookie leaves out the members that are undefined;
\* JSON.parse gives an object in which those members are missing (undefined
\* when read)
CookieMembers == {"name", "value", "domain", "path", "secure", "sameSite", "expiry"}
JsonStringifyCookie(c) ==
  [k \in {"value"} \cup {m \in CookieMembers \ {"value"} : c[m] # "undefined"} |-> c[k]]
JsonParseCookie(obj) ==
  [k \in CookieMembers |-> IF k \in DOMAIN obj THEN obj[k] ELSE "undefined"]

\* fs.writeFile(path, JSON.stringify(state)): absent sections are left out
JsonStringify(state) ==
  [state EXCEPT !.cookies.v = [i \in DOMAIN state.cookies.v |->
                                 JsonStringifyCookie(state.cookies.v[i])]]
\* JSON.parse(await fs.readFile(path))
JsonParse(data) ==
  [data EXCEPT !.cookies.v = [i \in DOMAIN data.cookies.v |->
                                JsonParseCookie(data.cookies.v[i])]]

\* setLocalStorage / setSessionStorage: the items of the current origin are written
SetStorage(area, section) ==
  IF section.present /\ section.v = "data" THEN "data" ELSE area

\* saveState(path, options): getState(options), then the file is written
SaveState ==
  /\ storagePc = "start"
  /\ \E options \in StorageStateOptions, order \in Orders(DOMAIN jar),
        ls \in StorageReads("localStorage"), ss \in StorageReads("sessionStorage") :
       LET state == GetState(options, GetCookies(jar, order), ls, ss) IN
         /\ snapshot' = [options |-> options, state |-> state]
         /\ file' = JsonStringify(state)
  /\ before' = jar
  /\ storagePc' = "saved"
  /\ UNCHANGED <<jar, pageStorage, bidiMode, lastSet>>
  /\ UNCHANGED notStorageVars

\* clearCookies(): storage.deleteCookies with an empty filter over BiDi;
\* else one expiring assignment to document.cookie per cookie read
ClearCookies ==
  /\ storagePc = "saved"
  /\ IF bidiMode
     THEN jar' = EmptyMap
     ELSE \E order \in Orders(DOMAIN jar) :
            jar' = ClearCookiesClassic(jar, GetCookiesClassic(jar, order))
  /\ storagePc' = "cleared"
  /\ UNCHANGED <<pageStorage, bidiMode, file, before, snapshot, lastSet>>
  /\ UNCHANGED notStorageVars

\* loadState(path): setState(JSON.parse(file))
LoadState ==
  /\ storagePc = "cleared"
  /\ LET state == JsonParse(file)
         cookies == IF state.cookies.present THEN state.cookies.v ELSE <<>>
     IN /\ IF Len(cookies) = 0
           THEN UNCHANGED <<jar, lastSet>>
           ELSE IF bidiMode
                THEN /\ jar' = SetCookiesBiDi(jar, cookies).jar
                     /\ lastSet' = [cookies |-> cookies,
                                    sent |-> SetCookiesBiDi(jar, cookies).sent]
                ELSE /\ jar' = SetCookiesClassic(jar, cookies)
                     /\ lastSet' = [cookies |-> cookies, sent |-> <<>>]
        /\ pageStorage' =
             [localStorage |-> SetStorage(pageStorage.localStorage, state.localStorage),
              sessionStorage |-> SetStorage(pageStorage.sessionStorage, state.sessionStorage)]
  /\ storagePc' = "loaded"
  /\ UNCHANGED <<bidiMode, file, before, snapshot>>
  /\ UNCHANGED notStorageVars

\* what callers pass to addCookie: secure and path may be left out, sameSite
\* is 'Strict' | 'Lax' | 'None' (lower-cased by addCookie) or left out
AddedCookies ==
  [name : {"sid"}, value : {[type |-> "string", value |-> <<"a", "b">>]},
   domain : {Hostname}, path : {"/", "undefined"}, secure : TriState,
   sameSite : {"strict", "lax", "none", "undefined"}, expiry : {"undefined"}]

\* addCookie(cookie): setCookies([partialCookie])
AddCookie ==
  /\ storagePc = "start"
  /\ \E cookie \in AddedCookies :
       IF bidiMode
       THEN /\ jar' = SetCookiesBiDi(jar, <<cookie>>).jar
            /\ lastSet' = [cookies |-> <<cookie>>,
                           sent |-> SetCookiesBiDi(jar, <<cookie>>).sent]
       ELSE /\ jar' = SetCookiesClassic(jar, <<cookie>>)
            /\ lastSet' = [cookies |-> <<cookie>>, sent |-> <<>>]
  /\ storagePc' = "added"
  /\ UNCHANGED <<pageStorage, bidiMode, file, before, snapshot>>
  /\ UNCHANGED notStorageVars

(***************************************************************************)
(* Claims about session state, checked under SpecStorage.                  *)
(***************************************************************************)
\* the cookies of a store by name, value, domain and path
CookieSet(j) ==
  {[name |-> k.name, value |-> j[k].value, domain |-> k.domain, path |-> k.path] :
     k \in DOMAIN j}

\* C15: after saveState(path), clearCookies() and loadState(path) the cookie
\* store holds the cookies it held when saveState was called, by name,
\* value, domain and path, in BiDi mode and in Classic mode.
C15_RoundTripRestoresCookies ==
  (storagePc = "loaded" /\ snapshot.options = DefaultOptions) =>
    CookieSet(jar) = CookieSet(before)

\* C16: in BiDi mode every cookie given to setCookies is sent in one
\* storage.setCookie command; no command carries sameSite 'none' with a
\* secure flag that is not true; such a cookie is sent with sameSite 'lax'
\* and its other members as given.
C16_NoneWithoutSecureSentAsLax ==
  bidiMode =>
    /\ Len(lastSet.sent) = Len(lastSet.cookies)
    /\ \A i \in DOMAIN lastSet.sent :
         /\ ~(lastSet.sent[i].sameSite = "none" /\ lastSet.sent[i].secure # "true")
         /\ (lastSet.cookies[i].sameSite = "none" /\ lastSet.cookies[i].secure # "true") =>
              lastSet.sent[i] = [lastSet.cookies[i] EXCEPT !.sameSite = "lax"]

C16_Witness ==
  /\ bidiMode
  /\ storagePc = "added"
  /\ lastSet.cookies[1].sameSite = "none"
  /\ lastSet.cookies[1].secure = "undefined"
  /\ lastSet.sent[1].sameSite = "lax"

\* C17: the state getState(options) returns, and the state saveState
\* writes, has cookies exactly when includeCookies is not false, has
\* localStorage only when includeLocalStorage is not false, and has
\* sessionStorage only when includeSessionStorage is true.
C17_SectionsFollowOptions ==
  storagePc \in {"saved", "cleared", "loaded"} =>
    /\ snapshot.state.cookies.present <=> snapshot.options.includeCookies # "false"
    /\ snapshot.state.localStorage.present => snapshot.options.includeLocalStorage # "false"
    /\ snapshot.state.sessionStorage.present =>
         snapshot.options.includeSessionStorage = "true"
    /\ file.cookies.present <=> snapshot.options.includeCookies # "false"
    /\ file.localStorage.present => snapshot.options.includeLocalStorage # "false"
    /\ file.sessionStorage.present => snapshot.options.includeSessionStorage = "true"

C17_Witness ==
  /\ storagePc = "saved"
  /\ snapshot.options.includeCookies = "undefined"
  /\ snapshot.options.includeLocalStorage = "false"
  /\ snapshot.options.includeSessionStorage = "true"
  /\ file.cookies.present
  /\ ~file.localStorage.present
  /\ file.sessionStorage.present

(***************************************************************************)
(* Log monitoring: LogMonitor.  A message is a record [n, type, level]:    *)
(* n is the number of the entry it was made from, in arrival order.        *)
(***************************************************************************)
\* initialize() calls, subscriptions and log entries of one run that the
\* model follows; entries sent beyond the buffer's capacity
MaxLogInits == 2
MaxLogHandlers == 2
MaxEntries == 2
MaxOverflow == 2

\* private maxLogs = 1000
maxLogs == 1000

LogLevels == {"info", "error"}
LogHandlerIds == {"h1", "h2"}
\* what the remote end reports: the entry's type and level
LogEntries == [type : {"console", "javascript"}, level : LogLevels]

NoNotify ==
  [arrived |-> FALSE, message |-> [n |-> 0, type |-> "", level |-> ""],
   invoked |-> <<>>, escaped |-> FALSE]

\* the monitor after its construction
LogInit ==
  /\ logSubscribed = FALSE
  /\ logInits = 0
  /\ logListeners = 0
  /\ allHandlers = <<>>
  /\ levelHandlers = [l \in LogLevels |-> <<>>]
  /\ consoleHandlers = <<>>
  /\ errorHandlers = <<>>
  /\ logs = <<>>
  /\ arrivals = 0
  /\ waiters = <<>>
  /\ lastNotify = NoNotify

\* the monitor after initialize() calls have completed and before any
\* subscription or entry
LogInitialized ==
  /\ logSubscribed = TRUE
  /\ logInits = 0
  /\ logListeners \in 1..MaxLogInits
  /\ allHandlers = <<>>
  /\ levelHandlers = [l \in LogLevels |-> <<>>]
  /\ consoleHandlers = <<>>
  /\ errorHandlers = <<>>
  /\ logs = <<>>
  /\ arrivals = 0
  /\ waiters = <<>>
  /\ lastNotify = NoNotify

\* initialize() up to `await this.connection.subscribe(...)`
LogInitializeCall ==
  /\ logInits + logListeners < MaxLogInits
  /\ ~logSubscribed
  /\ logInits' = logInits + 1
  /\ UNCHANGED <<logSubscribed, logListeners, allHandlers, levelHandlers, consoleHandlers,
                 errorHandlers, logs, arrivals, waiters, lastNotify>>
  /\ UNCHANGED notLogVars

\* initialize() on a monitor that is subscribed: returns at once
LogInitializeAgain ==
  /\ logSubscribed
  /\ UNCHANGED logVars
  /\ UNCHANGED notLogVars

\* session.subscribe is answered: the listener is registered and
\* this.subscribed set; an error answer rejects the initialize() call
LogSubscribeAnswered ==
  /\ logInits > 0
  /\ logInits' = logInits - 1
  /\ \E ok \in BOOLEAN :
       IF ok
       THEN /\ logListeners' = logListeners + 1
            /\ logSubscribed' = TRUE
       ELSE UNCHANGED <<logListeners, logSubscribed>>
  /\ UNCHANGED <<allHandlers, levelHandlers, consoleHandlers, errorHandlers, logs, arrivals,
                 waiters, lastNotify>>
  /\ UNCHANGED notLogVars

\* how many subscriptions there are
LogSubscriptions ==
  Len(allHandlers) + Len(consoleHandlers) + Len(errorHandlers)
    + Len(levelHandlers["info"]) + Len(levelHandlers["error"])

\* Set.add: a handler is in a set once
SetAdd(set, h) == IF h \in Range(set) THEN set ELSE Append(set, h)

\* onLog(handler)
OnLog ==
  /\ LogSubscriptions < MaxLogHandlers
  /\ \E h \in LogHandlerIds : allHandlers' = SetAdd(allHandlers, h)
  /\ lastNotify' = NoNotify
  /\ UNCHANGED <<logSubscribed, logInits, logListeners, levelHandlers, consoleHandlers,
                 errorHandlers, logs, arrivals, waiters>>
  /\ UNCHANGED notLogVars

\* on(level, handler)
OnLevel ==
  /\ LogSubscriptions < MaxLogHandlers
  /\ \E h \in LogHandlerIds, level \in LogLevels :
       levelHandlers' = [levelHandlers EXCEPT ![level] = SetAdd(levelHandlers[level], h)]
  /\ lastNotify' = NoNotify
  /\ UNCHANGED <<logSubscribed, logInits, logListeners, allHandlers, consoleHandlers,
                 errorHandlers, logs, arrivals, waiters>>
  /\ UNCHANGED notLogVars

\* onConsole(handler)
OnConsole ==
  /\ LogSubscriptions < MaxLogHandlers
  /\ \E h \in LogHandlerIds : consoleHandlers' = SetAdd(consoleHandlers, h)
  /\ lastNotify' = NoNotify
  /\ UNCHANGED <<logSubscribed, logInits, logListeners, allHandlers, levelHandlers,
                 errorHandlers, logs, arrivals, waiters>>
  /\ UNCHANGED notLogVars

\* onError(handler)
OnError ==
  /\ LogSubscriptions < MaxLogHandlers
  /\ \E h \in LogHandlerIds : errorHandlers' = SetAdd(errorHandlers, h)
  /\ lastNotify' = NoNotify
  /\ UNCHANGED <<logSubscribed, logInits, logListeners, allHandlers, levelHandlers,
                 consoleHandlers, logs, arrivals, waiters>>
  /\ UNCHANGED notLogVars

\* convertLogEntry: a javascript entry becomes an error of level 'error', any
\* other entry a console message of the entry's level
ConvertLogEntry(entry, n) ==
  IF entry.type = "javascript"
  THEN [n |-> n, type |-> "javascript", level |-> "error"]
  ELSE [n |-> n, type |-> "console", level |-> entry.level]

\* (mutant) a full buffer refuses the new message
StoreLog_DropNewest(buffer, message) ==
  IF Len(buffer) >= maxLogs THEN buffer ELSE Append(buffer, message)

\* this.logs.push(message); if (this.logs.length > this.maxLogs) this.logs.shift()
StoreLog(buffer, message) ==
  IF Len(Append(buffer, message)) > maxLogs
  THEN Tail(Append(buffer, message))
  ELSE Append(buffer, message)

\* try { handler(message) } catch (err) { console.error(...) }
NotifyHandler(handler, throwers) ==
  IF handler \in throwers THEN "caught" ELSE "returned"

\* one loop of notifyHandlers over a set: the handlers invoked, tagged with
\* the set, and whether an exception escaped
RECURSIVE NotifySet(_, _, _)
NotifySet(set, tag, throwers) ==
  IF set = <<>> THEN [invoked |-> <<>>, escaped |-> FALSE]
  ELSE IF NotifyHandler(Head(set), throwers) = "thrown"
       THEN [invoked |-> <<[set |-> tag, handler |-> Head(set)]>>, escaped |-> TRUE]
       ELSE LET rest == NotifySet(Tail(set), tag, throwers) IN
            [invoked |-> <<[set |-> tag, handler |-> Head(set)]>> \o rest.invoked,
             escaped |-> rest.escaped]

\* the type-specific handlers of a message
TypeHandlers(message) ==
  IF message.type = "console" THEN consoleHandlers
  ELSE IF message.type = "javascript" THEN errorHandlers ELSE <<>>

\* notifyHandlers(message): all handlers, then the handlers of the
\* message's level, then the handlers of its type; an exception that
\* escapes a loop ends the call
NotifyHandlers(message, throwers) ==
  LET all == NotifySet(allHandlers, "all", throwers)
      level == IF all.escaped THEN [invoked |-> <<>>, escaped |-> TRUE]
               ELSE NotifySet(levelHandlers[message.level], message.level, throwers)
      type == IF level.escaped THEN [invoked |-> <<>>, escaped |-> TRUE]
              ELSE NotifySet(TypeHandlers(message), message.type, throwers)
  IN [invoked |-> all.invoked \o level.invoked \o type.invoked, escaped |-> type.escaped]

\* the event reaches every registered listener, each of which runs
\* handleLogEntry(entry): convert, store, notify
RECURSIVE HandleLogEntries(_, _, _, _, _)
HandleLogEntries(listeners, buffer, entry, n, throwers) ==
  IF listeners = 0 THEN [logs |-> buffer, invoked |-> <<>>, escaped |-> FALSE]
  ELSE LET message == ConvertLogEntry(entry, n)
           notified == NotifyHandlers(message, throwers)
           rest == HandleLogEntries(listeners - 1, StoreLog(buffer, message), entry, n,
                                    throwers)
       IN [logs |-> rest.logs, invoked |-> notified.invoked \o rest.invoked,
           escaped |-> notified.escaped \/ rest.escaped]

\* waitForConsole / waitForError calls of one run
MaxWaits == 2

\* what the predicates of the waiting calls ask of a message: the level
\* 'error', or nothing (a predicate that accepts every message, or waitForError without
\* a predicate)
Predicates == {"error", "any"}

\* the type of message the subscriber of a waiting call is invoked for:
\* onConsole for waitForConsole, onError for waitForError
WaitTypes == {"console", "javascript"}

\* new Promise(...) of waitForConsole / waitForError: the timer is set and
\* the subscriber added
NewWaiter(type, predicate, arrived) ==
  [type |-> type, predicate |-> predicate, timer |-> TRUE, subscribed |-> TRUE,
   pc |-> "waiting", settles |-> 0, result |-> 0, after |-> arrived]

\* predicate(msg), and `!predicate || predicate(err)`
PredicateHolds(w, message) == w.predicate = "any" \/ message.level = w.predicate

\* resolve(msg) and reject(error): only a pending promise changes
WaiterResolve(w, message) ==
  [w EXCEPT !.settles = @ + 1,
            !.pc = IF @ = "waiting" THEN "resolved" ELSE @,
            !.result = IF w.pc = "waiting" THEN message.n ELSE @]
WaiterReject(w) ==
  [w EXCEPT !.settles = @ + 1, !.pc = IF @ = "waiting" THEN "rejected" ELSE @]

\* (mutant) the timer rejects and leaves the subscriber in place
WaiterTimeout_StaysSubscribed(w) == WaiterReject([w EXCEPT !.timer = FALSE])

\* the timer callback: unsubscribe(); reject(new Error('Timeout waiting for ...'))
WaiterTimeout(w) == WaiterReject([w EXCEPT !.timer = FALSE, !.subscribed = FALSE])

\* the subscriber: if (predicate(msg)) { clearTimeout(timeoutId); unsubscribe(); resolve(msg) }
WaiterHandler(w, message) ==
  IF PredicateHolds(w, message)
  THEN WaiterResolve([w EXCEPT !.timer = FALSE, !.subscribed = FALSE], message)
  ELSE w

\* one run of notifyHandlers, as the waiting calls see it: the subscribers
\* of the message's type are invoked
NotifyWaiter(w, message) ==
  IF w.subscribed /\ w.type = message.type THEN WaiterHandler(w, message) ELSE w

\* the waiting calls after each of the monitor's listeners has run
\* handleLogEntry for the message
RECURSIVE NotifyWaiters(_, _, _)
NotifyWaiters(waiting, message, listeners) ==
  IF listeners = 0 THEN waiting
  ELSE NotifyWaiters([i \in DOMAIN waiting |-> NotifyWaiter(waiting[i], message)], message,
                     listeners - 1)

\* waitForConsole(predicate, timeout)
WaitForConsole ==
  /\ Len(waiters) < MaxWaits
  /\ \E predicate \in Predicates :
       waiters' = Append(waiters, NewWaiter("console", predicate, arrivals))
  /\ UNCHANGED <<logSubscribed, logInits, logListeners, allHandlers, levelHandlers,
                 consoleHandlers, errorHandlers, logs, arrivals, lastNotify>>
  /\ UNCHANGED notLogVars

\* waitForError(predicate, timeout), the predicate optional
WaitForError ==
  /\ Len(waiters) < MaxWaits
  /\ \E predicate \in Predicates :
       waiters' = Append(waiters, NewWaiter("javascript", predicate, arrivals))
  /\ UNCHANGED <<logSubscribed, logInits, logListeners, allHandlers, levelHandlers,
                 consoleHandlers, errorHandlers, logs, arrivals, lastNotify>>
  /\ UNCHANGED notLogVars

\* the timer of a waiting call fires
WaitTimerFires ==
  /\ \E i \in DOMAIN waiters :
       /\ waiters[i].timer
       /\ waiters' = [waiters EXCEPT ![i] = WaiterTimeout(@)]
  /\ UNCHANGED <<logSubscribed, logInits, logListeners, allHandlers, levelHandlers,
                 consoleHandlers, errorHandlers, logs, arrivals, lastNotify>>
  /\ UNCHANGED notLogVars

AllSubscribers ==
  Range(allHandlers) \cup Range(consoleHandlers) \cup Range(errorHandlers)
    \cup Range(levelHandlers["info"]) \cup Range(levelHandlers["error"])

\* the listeners of the monitor receive log.entryAdded, the n-th entry
DeliverAs(entry, n, throwers) ==
  LET done == HandleLogEntries(logListeners, logs, entry, n, throwers) IN
    /\ arrivals' = arrivals + 1
    /\ logs' = done.logs
    /\ waiters' = NotifyWaiters(waiters, ConvertLogEntry(entry, n), logListeners)
    /\ lastNotify' = [arrived |-> TRUE, message |-> ConvertLogEntry(entry, n),
                      invoked |-> done.invoked, escaped |-> done.escaped]

\* the remote end sends log.entryAdded
Deliver(entry, throwers) == DeliverAs(entry, arrivals + 1, throwers)

\* an entry of any kind arrives; some of the subscribers throw
LogEntryAdded ==
  /\ logListeners > 0
  /\ arrivals < MaxEntries
  /\ \E entry \in LogEntries, throwers \in SUBSET AllSubscribers : Deliver(entry, throwers)
  /\ UNCHANGED <<logSubscribed, logInits, logListeners, allHandlers, levelHandlers,
                 consoleHandlers, errorHandlers>>
  /\ UNCHANGED notLogVars

\* one more entry of a page that keeps logging, up to past the buffer's capacity
LogFlood ==
  /\ logListeners > 0
  /\ arrivals < maxLogs + MaxOverflow
  /\ Deliver([type |-> "console", level |-> "info"], {})
  /\ UNCHANGED <<logSubscribed, logInits, logListeners, allHandlers, levelHandlers,
                 consoleHandlers, errorHandlers>>
  /\ UNCHANGED notLogVars

\* getLogs(), getConsoleLogs(), getErrors()
GetLogs == logs
GetConsoleLogs == SelectSeq(logs, LAMBDA log : log.type = "console")
GetErrors == SelectSeq(logs, LAMBDA log : log.type = "javascript")

\* (mutant) clearLogs() also drops the all-message subscribers
ClearLogs_AndSubscribers ==
  /\ logs' = <<>>
  /\ allHandlers' = <<>>
  /\ lastNotify' = NoNotify
  /\ UNCHANGED <<logSubscribed, logInits, logListeners, levelHandlers, consoleHandlers,
                 errorHandlers, arrivals, waiters>>
  /\ UNCHANGED notLogVars

\* clearLogs(): this.logs = []
ClearLogs ==
  /\ logs' = <<>>
  /\ lastNotify' = NoNotify
  /\ UNCHANGED <<logSubscribed, logInits, logListeners, allHandlers, levelHandlers,
                 consoleHandlers, errorHandlers, arrivals, waiters>>
  /\ UNCHANGED notLogVars

(***************************************************************************)
(* Claims about log monitoring.                                            *)
(***************************************************************************)
Min(a, b) == IF a < b THEN a ELSE b

\* C18: the buffer never holds more than 1000 messages, and it holds the
\* most recent ones in arrival order: it ends with the latest entry, steps
\* from one entry to the same or the next one (no entry in between is
\* missing), and is as long as the entries stored so far allow.
C18_BufferHoldsMostRecent ==
  /\ Len(logs) <= 1000
  /\ Len(logs) = Min(arrivals * logListeners, 1000)
  /\ (arrivals > 0 /\ logListeners > 0) => logs[Len(logs)].n = arrivals
  /\ \A i \in 1..(Len(logs) - 1) : logs[i + 1].n \in {logs[i].n, logs[i].n + 1}

C18_Witness ==
  /\ logListeners = 1
  /\ arrivals = 1002
  /\ Len(logs) = 1000
  /\ logs[1].n = 3

\* the deliveries of the latest message to handler h as a member of `set`
Deliveries(set, h) ==
  Cardinality({i \in DOMAIN lastNotify.invoked :
                 lastNotify.invoked[i] = [set |-> set, handler |-> h]})

\* C19: a log entry is delivered exactly once to every all-message
\* subscriber, to every subscriber of the message's level and to every
\* subscriber of its type, to no subscriber of another level or type, and
\* no subscriber's exception leaves notifyHandlers.
C19_DeliveredOnceToEachSubscriber ==
  lastNotify.arrived =>
    /\ ~lastNotify.escaped
    /\ \A h \in LogHandlerIds :
         /\ Deliveries("all", h) = IF h \in Range(allHandlers) THEN 1 ELSE 0
         /\ \A l \in LogLevels :
              Deliveries(l, h) =
                IF l = lastNotify.message.level /\ h \in Range(levelHandlers[l])
                THEN 1 ELSE 0
         /\ Deliveries("console", h) =
              IF lastNotify.message.type = "console" /\ h \in Range(consoleHandlers)
              THEN 1 ELSE 0
         /\ Deliveries("javascript", h) =
              IF lastNotify.message.type = "javascript" /\ h \in Range(errorHandlers)
              THEN 1 ELSE 0

\* C20: however initialize() calls overlap, at most one log.entryAdded
\* listener is registered, exactly one once the monitor is subscribed, and
\* every entry is stored once.
C20_InitializeRegistersOneListener ==
  /\ logListeners <= 1
  /\ logSubscribed => logListeners = 1
  /\ Len(logs) <= arrivals

\* C28: a step that empties a buffer that held messages leaves getLogs,
\* getConsoleLogs and getErrors empty and changes no subscriber and nothing
\* of the monitor's subscription; and whatever was cleared before, the latest
\* entry is in the buffer and was handed to every subscriber it matches.
C28_ClearLogsOnlyEmptiesBuffer ==
  /\ [](lastNotify.arrived =>
          /\ logs # <<>>
          /\ logs[Len(logs)] = lastNotify.message
          /\ \A h \in LogHandlerIds :
               /\ h \in Range(allHandlers) => Deliveries("all", h) >= 1
               /\ h \in Range(levelHandlers[lastNotify.message.level]) =>
                    Deliveries(lastNotify.message.level, h) >= 1
               /\ h \in Range(TypeHandlers(lastNotify.message)) =>
                    Deliveries(lastNotify.message.type, h) >= 1)
  /\ [][(logs # <<>> /\ logs' = <<>>) =>
          /\ GetLogs' = <<>> /\ GetConsoleLogs' = <<>> /\ GetErrors' = <<>>
          /\ UNCHANGED <<logSubscribed, logInits, logListeners, allHandlers, levelHandlers,
                         consoleHandlers, errorHandlers, arrivals>>]_<<logVars>>

\* the second entry arrived after the first had been cleared, and was
\* stored and handed to a subscriber
C28_Witness ==
  /\ logListeners = 1
  /\ arrivals = 2
  /\ Len(logs) = 1
  /\ lastNotify.arrived
  /\ logs[1].n = 2
  /\ lastNotify.invoked # <<>>

\* the messages delivered after waiting call w was made that its
\* subscriber is invoked for and its predicate accepts, by their number
MatchesAfter(w) ==
  {logs[i].n : i \in {j \in DOMAIN logs :
                        /\ logs[j].n > w.after
                        /\ logs[j].type = w.type
                        /\ PredicateHolds(w, logs[j])}}

\* C39: resolve or reject is called at most once for a waiting call; a
\* call that has settled has no subscriber and no timer left; a resolved
\* call holds the first message of its type that arrived after the call and
\* that its predicate accepts, never an earlier one; a call rejected by its
\* timer stays rejected, whatever arrives later; and a call that still
\* waits has seen no such message.
C39_WaitSettlesOnce ==
  \A i \in DOMAIN waiters :
    LET w == waiters[i] IN
      /\ w.settles <= 1
      /\ w.pc = "waiting" <=> w.settles = 0
      /\ w.pc = "waiting" => (w.subscribed /\ w.timer /\ MatchesAfter(w) = {})
      /\ w.pc # "waiting" => (~w.subscribed /\ ~w.timer)
      /\ w.pc = "resolved" =>
           /\ w.result > w.after
           /\ w.result \in MatchesAfter(w)
           /\ \A n \in MatchesAfter(w) : w.result <= n
      /\ w.pc = "rejected" => w.result = 0

\* a call made after a matching message had arrived was rejected by its
\* timer, and a matching message arrived afterwards; a later call was
\* resolved by that message
C39_Witness ==
  /\ Len(waiters) = 2
  /\ waiters[1].pc = "rejected"
  /\ waiters[1].after = 1
  /\ logs[1].type = waiters[1].type /\ PredicateHolds(waiters[1], logs[1])
  /\ MatchesAfter(waiters[1]) = {2}
  /\ waiters[2].pc = "resolved" /\ waiters[2].result = 2
  /\ waiters[2].type = waiters[1].type

(***************************************************************************)
(* Events from the socket to the listeners.  The socket emits 'message'    *)
(* once per message, in the order the messages arrived; the handler runs   *)
(* handleMessage and handleEvent to completion before the next 'message'.  *)
(* The listeners are those of eventHandlers and, for log.entryAdded, the   *)
(* listeners the log monitor registered.                                   *)
(***************************************************************************)
\* event messages of one run
MaxEvents == 2

OrderInit ==
  /\ incoming = <<>>
  /\ eventsSent = 0
  /\ subscribedTo = {}
  /\ invocations = <<>>

\* a connection whose connect() has resolved
BidiConnected ==
  /\ ws = 1
  /\ messageId = 0
  /\ pending = EmptyMap
  /\ connected = TRUE
  /\ wsUrl = "ws://remote/session"
  /\ autoReconnect = FALSE
  /\ sockets = <<[state |-> "open", connect |-> "resolved", userClosed |-> FALSE]>>
  /\ reconnects = 0
  /\ wire = {}
  /\ promises = <<>>

\* the remote end sends an event message on the socket
EventSent ==
  /\ eventsSent < MaxEvents
  /\ sockets[1].state = "open"
  /\ \E method \in EventMethods :
       incoming' = Append(incoming, [n |-> eventsSent + 1, method |-> method])
  /\ eventsSent' = eventsSent + 1
  /\ UNCHANGED <<subscribedTo, invocations>>
  /\ UNCHANGED <<waitVars, classicVars, bidiVars, eventVars, netVars, storageVars, logVars,
                 selectVars, browserVars>>

\* (mutant) the socket hands over the message that arrived last
NextMessage_Newest(queue) == queue[Len(queue)]

\* this.ws.on('message', ...): the socket emits the messages in arrival order
NextMessage(queue) == Head(queue)

\* n copies of x
Repeat(x, n) == [i \in 1..n |-> x]

\* 'message' is emitted: handleMessage, handleEvent, and in it the
\* listeners of the log monitor
MessageArrives ==
  /\ incoming # <<>>
  /\ LET message == NextMessage(incoming)
         monitor == IF message.method = "log.entryAdded" THEN logListeners ELSE 0
     IN /\ incoming' = Without(incoming, message)
        /\ HandleEvent(message.method, {})
        /\ invocations' = invocations
             \o Repeat(message.n, Len(eventHandlers[message.method]) + monitor
                                    + Len(eventHandlers["*"]))
        /\ IF monitor > 0
           THEN DeliverAs([type |-> "console", level |-> "info"], message.n, {})
           ELSE UNCHANGED <<arrivals, logs, waiters, lastNotify>>
  /\ UNCHANGED <<eventHandlers, registrations, eventsSent, subscribedTo>>
  /\ UNCHANGED <<logSubscribed, logInits, logListeners, allHandlers, levelHandlers,
                 consoleHandlers, errorHandlers>>
  /\ UNCHANGED <<waitVars, classicVars, bidiVars, netVars, storageVars, selectVars,
                 browserVars>>

\* subscribe([event]) on the established connection, from the call to the
\* answer of the remote end to session.subscribe
SubscribeCompleted ==
  /\ IsConnected
  /\ \E event \in EventMethods : subscribedTo' = subscribedTo \cup {event}
  /\ lastDispatch' = NoDispatch
  /\ UNCHANGED <<eventHandlers, registrations, incoming, eventsSent, invocations>>
  /\ UNCHANGED <<waitVars, classicVars, bidiVars, netVars, storageVars, logVars, selectVars,
                 browserVars>>

\* unsubscribe([event]), from the call to the answer to session.unsubscribe
UnsubscribeCompleted ==
  /\ IsConnected
  /\ \E event \in subscribedTo : subscribedTo' = subscribedTo \ {event}
  /\ lastDispatch' = NoDispatch
  /\ UNCHANGED <<eventHandlers, registrations, incoming, eventsSent, invocations>>
  /\ UNCHANGED <<waitVars, classicVars, bidiVars, netVars, storageVars, logVars, selectVars,
                 browserVars>>

C26_OnlySubscribedEventsInvokeListeners ==
  (lastDispatch.method # "" /\ lastDispatch.method \notin subscribedTo) =>
    lastDispatch.invoked = <<>>

(***************************************************************************)
(* ElementHandle.select(value): wait until the element is located, ask for *)
(* its tag name, refuse an element that is not a <select>, and otherwise   *)
(* run the selection script on it.                                         *)
(***************************************************************************)
\* find-element requests of one wait
MaxLocates == 3

Tags == {"select", "div", "input", "option"}
OptionValues == {"es", "invalid"}
NoSelectError == [kind |-> "", found |-> ""]

SelectInit ==
  /\ selectPc = "idle"
  /\ element = [tag |-> "", value |-> ""]
  /\ locates = 0
  /\ tagQueries = 0
  /\ tagName = ""
  /\ scripts = 0
  /\ selectError = NoSelectError

\* select(value, options) up to the first find-element request of the wait
SelectCall ==
  /\ selectPc = "idle"
  /\ \E tag \in Tags, value \in OptionValues : element' = [tag |-> tag, value |-> value]
  /\ selectPc' = "locating"
  /\ UNCHANGED <<locates, tagQueries, tagName, scripts, selectError>>
  /\ UNCHANGED notSelectVars

\* one poll of driver.wait(until.elementLocated(this.by)): the element is
\* found, or not yet
LocateAnswered ==
  /\ selectPc = "locating"
  /\ locates < MaxLocates
  /\ locates' = locates + 1
  /\ \E found \in BOOLEAN :
       /\ selectPc' = IF found THEN "tag" ELSE "locating"
       /\ tagQueries' = IF found THEN tagQueries + 1 ELSE tagQueries
  /\ UNCHANGED <<element, tagName, scripts, selectError>>
  /\ UNCHANGED notSelectVars

\* the wait times out before the element is found
LocateTimedOut ==
  /\ selectPc = "locating"
  /\ selectPc' = "rejected"
  /\ selectError' = [kind |-> "timeout", found |-> ""]
  /\ UNCHANGED <<element, locates, tagQueries, tagName, scripts>>
  /\ UNCHANGED notSelectVars

\* el.getTagName(): the tag name the remote end reports for the element
GetTagName(el) == el.tag

\* `select() can only be used on <select> elements. Found <${tagName}> instead. ...`
SelectOnlyError(name) == [kind |-> "can only be used on <select> elements", found |-> name]

\* (mutant) every element is taken for a <select>
IsSelect_Always(name) == TRUE

\* the test of `if (tagName !== 'select')`
IsSelect(name) == name = "select"

\* the tag query is answered: lines 116-137 up to the executeScript request;
\* a transport failure rejects the call
TagAnswered ==
  /\ selectPc = "tag"
  /\ \E ok \in BOOLEAN :
       IF ~ok
       THEN /\ selectPc' = "rejected"
            /\ selectError' = [kind |-> "network error", found |-> ""]
            /\ UNCHANGED <<tagName, scripts>>
       ELSE /\ tagName' = GetTagName(element)
            /\ IF IsSelect(GetTagName(element))
               THEN /\ selectPc' = "script"
                    /\ scripts' = scripts + 1
                    /\ UNCHANGED selectError
               ELSE /\ selectPc' = "rejected"
                    /\ selectError' = SelectOnlyError(GetTagName(element))
                    /\ UNCHANGED scripts
  /\ UNCHANGED <<element, locates, tagQueries>>
  /\ UNCHANGED notSelectVars

\* the executeScript request is answered; a transport failure rejects the call
ScriptAnswered ==
  /\ selectPc = "script"
  /\ \E ok \in BOOLEAN :
       IF ok
       THEN /\ selectPc' = "resolved"
            /\ UNCHANGED selectError
       ELSE /\ selectPc' = "rejected"
            /\ selectError' = [kind |-> "network error", found |-> ""]
  /\ UNCHANGED <<element, locates, tagQueries, tagName, scripts>>
  /\ UNCHANGED notSelectVars

\* C27: no selection script is ever executed on an element that is not a
\* <select>, and once the tag of a located element has been reported as
\* something else, select() has failed with the 'can only be used on
\* <select> elements' error that names the tag found, after one tag query.
C27_SelectRefusesOtherElements ==
  /\ element.tag # "select" => scripts = 0
  /\ (tagName # "" /\ tagName # "select") =>
       /\ selectPc = "rejected"
       /\ selectError = [kind |-> "can only be used on <select> elements",
                         found |-> element.tag]
       /\ tagQueries = 1

\* a <div> that was found on the second poll
C27_Witness ==
  /\ element.tag = "div"
  /\ locates = 2
  /\ tagName = "div"
  /\ selectPc = "rejected"

(***************************************************************************)
(* Browser: launch with initBiDi, and quit.  The commands BiDiSession's    *)
(* connect awaits (browsingContext.getTree, session.subscribe) are settled *)
(* before launch returns and are followed by their outcome only.           *)
(***************************************************************************)
BrowserInit ==
  /\ bidiSession = "undefined"
  /\ launchPc = "new"
  /\ quitPc = "idle"
  /\ quitLog = <<>>

\* Browser.launch up to initBiDi's `await this.bidiSession.connect(wsUrl)`,
\* or to its end when BiDi is not enabled or no webSocketUrl was returned
Launch ==
  /\ launchPc = "new"
  /\ \E wanted \in BOOLEAN :
       IF wanted
       THEN /\ bidiSession' = "set"
            /\ launchPc' = "connecting"
            /\ OpenSocket
            /\ UNCHANGED <<messageId, pending, connected, autoReconnect, reconnects, wire,
                           promises>>
       ELSE /\ launchPc' = "launched"
            /\ UNCHANGED <<bidiSession, bidiVars>>
  /\ UNCHANGED <<quitPc, quitLog>>
  /\ UNCHANGED <<waitVars, classicVars, eventVars, netVars, storageVars, logVars, orderVars,
                 selectVars>>

\* connection.connect has settled: BiDiSession.connect goes on with its
\* commands, or initBiDi catches the rejection
InitBiDiConnectSettled ==
  /\ launchPc = "connecting"
  /\ sockets[1].connect # "pending"
  /\ IF sockets[1].connect = "resolved"
     THEN /\ launchPc' = "initializing"
          /\ UNCHANGED bidiSession
     ELSE /\ launchPc' = "launched"
          /\ bidiSession' = "undefined"
  /\ UNCHANGED <<quitPc, quitLog>>
  /\ UNCHANGED <<waitVars, classicVars, bidiVars, eventVars, netVars, storageVars, logVars,
                 orderVars, selectVars>>

\* the commands of BiDiSession.connect have settled: all resolved, or one
\* rejected (error answer, timeout, closed socket), which initBiDi catches
InitBiDiSettled ==
  /\ launchPc = "initializing"
  /\ launchPc' = "launched"
  /\ \E ok \in BOOLEAN :
       /\ ok => IsConnected
       /\ bidiSession' = IF ok THEN "set" ELSE "undefined"
  /\ UNCHANGED <<quitPc, quitLog>>
  /\ UNCHANGED <<waitVars, classicVars, bidiVars, eventVars, netVars, storageVars, logVars,
                 orderVars, selectVars>>

\* isBiDiEnabled(): this.bidiSession?.isConnected() ?? false
IsBiDiEnabled == bidiSession = "set" /\ IsConnected

\* a BiDi command sent through the Browser's session (network, logs, storage)
BrowserCommand ==
  /\ launchPc = "launched"
  /\ bidiSession = "set"
  /\ Send

\* quit() up to `await this.driver.quit()`: bidiSession.close() when there
\* is a session, its rejection swallowed by catch, then the DELETE session
\* request.  close() can only reject when ws.close(), its first statement,
\* throws.
QuitCall ==
  /\ launchPc = "launched"
  /\ quitPc = "idle"
  /\ quitPc' = "deleting"
  /\ IF bidiSession = "set"
     THEN \E closeThrows \in BOOLEAN :
            /\ closeThrows => ws # 0
            /\ IF closeThrows THEN UNCHANGED bidiVars ELSE CloseConnection
            /\ quitLog' = IF closeThrows THEN <<"close failed", "delete">>
                          ELSE <<"close", "delete">>
     ELSE /\ UNCHANGED bidiVars
          /\ quitLog' = <<"delete">>
  /\ UNCHANGED <<bidiSession, launchPc>>
  /\ UNCHANGED <<waitVars, classicVars, eventVars, netVars, storageVars, logVars, orderVars,
                 selectVars>>

\* the DELETE session request is answered, or fails in transport
QuitAnswered ==
  /\ quitPc = "deleting"
  /\ \E ok \in BOOLEAN : quitPc' = IF ok THEN "resolved" ELSE "rejected"
  /\ UNCHANGED <<bidiSession, launchPc, quitLog>>
  /\ UNCHANGED <<waitVars, classicVars, bidiVars, eventVars, netVars, storageVars, logVars,
                 orderVars, selectVars>>

\* C29: when quit() issues the DELETE session call, every socket of the
\* BiDi connection has been closed (by close() before the call, or earlier),
\* unless closing failed; the call is issued in any case, and once quit() has
\* completed no BiDi command is pending and isBiDiEnabled() is false.
C29_QuitClosesBiDiFirst ==
  /\ quitPc # "idle" =>
       /\ quitLog[Len(quitLog)] = "delete"
       /\ quitLog[1] # "close failed" =>
            \A s \in DOMAIN sockets : sockets[s].state \notin {"connecting", "open"}
  /\ quitPc = "resolved" => (pending = EmptyMap /\ ~IsBiDiEnabled)

(***************************************************************************)
(* Specifications.  Each follows one part of the library; the variables of *)
(* the other parts rest at their initial values.                           *)
(***************************************************************************)
\* the wait engine and the canonical conditions
InitWait ==
  /\ WaitInit
  /\ ClassicInit
  /\ BidiInit /\ ~autoReconnect
  /\ EventInit
  /\ NetInit
  /\ StorageInit /\ jar = EmptyMap /\ bidiMode
     /\ pageStorage = [localStorage |-> "{}", sessionStorage |-> "{}"]
  /\ LogInit
  /\ OrderInit
  /\ SelectInit
  /\ BrowserInit
NextWait ==
  UntilCall \/ EvaluateCustom \/ EvaluateWaitFor \/ EvaluateCanonical \/ TimerFires
SpecWait == InitWait /\ [][NextWait]_vars

\* the wait engine where time advances: every pass through the loop, with
\* its setTimeout, takes at least one clock unit (until the clock of the
\* model stops), every evaluation of the condition terminates and every
\* timer fires
TimeAdvances == now' > now \/ now = MaxClock
NextWaitLive ==
  \/ UntilCall
  \/ EvaluateCustom
  \/ EvaluateWaitFor
  \/ EvaluateCanonical
  \/ (TimerFires /\ TimeAdvances)
SpecWaitLive ==
  /\ InitWait /\ [][NextWaitLive]_vars
  /\ WF_vars(EvaluateCustom) /\ WF_vars(EvaluateWaitFor) /\ WF_vars(EvaluateCanonical)
  /\ WF_vars(TimerFires /\ TimeAdvances)

\* Classic commands
InitClassic ==
  /\ WaitInit /\ now = 0
  /\ ClassicInit
  /\ BidiInit /\ ~autoReconnect
  /\ EventInit
  /\ NetInit
  /\ StorageInit /\ jar = EmptyMap /\ bidiMode
     /\ pageStorage = [localStorage |-> "{}", sessionStorage |-> "{}"]
  /\ LogInit
  /\ OrderInit
  /\ SelectInit
  /\ BrowserInit
NextClassic ==
  NavigateToCall \/ ClickCall \/ GetTextCall \/ IsDisplayedCall \/ FindElementCall
SpecClassic == InitClassic /\ [][NextClassic]_vars

\* the BiDi connection: sockets, commands and their responses
InitBidi ==
  /\ WaitInit /\ now = 0
  /\ ClassicInit
  /\ BidiInit /\ ~autoReconnect
  /\ EventInit
  /\ NetInit
  /\ StorageInit /\ jar = EmptyMap /\ bidiMode
     /\ pageStorage = [localStorage |-> "{}", sessionStorage |-> "{}"]
  /\ LogInit
  /\ OrderInit
  /\ SelectInit
  /\ BrowserInit
NextBidi ==
  \/ Connect
  \/ Close
  \/ Send
  \/ \E s \in DOMAIN sockets : SocketOpen(s)
  \/ \E s \in DOMAIN sockets : SocketError(s)
  \/ \E s \in DOMAIN sockets : SocketClose(s)
  \/ \E s \in DOMAIN sockets : RemoteResponds(s)
  \/ \E id \in DOMAIN pending : CommandTimeout(id)
SpecBidi == InitBidi /\ [][NextBidi]_vars

\* the BiDi connection: the life of its sockets, with connect timers and
\* automatic reconnection
InitBidiLifecycle ==
  /\ WaitInit /\ now = 0
  /\ ClassicInit
  /\ BidiInit
  /\ EventInit
  /\ NetInit
  /\ StorageInit /\ jar = EmptyMap /\ bidiMode
     /\ pageStorage = [localStorage |-> "{}", sessionStorage |-> "{}"]
  /\ LogInit
  /\ OrderInit
  /\ SelectInit
  /\ BrowserInit
NextBidiLifecycle ==
  \/ Connect
  \/ ReconnectFires
  \/ Close
  \/ Send
  \/ \E s \in DOMAIN sockets : ConnectTimeout(s)
  \/ \E s \in DOMAIN sockets : SocketOpen(s)
  \/ \E s \in DOMAIN sockets : SocketError(s)
  \/ \E s \in DOMAIN sockets : SocketClose(s)
SpecBidiLifecycle == InitBidiLifecycle /\ [][NextBidiLifecycle]_vars

\* the BiDi connection: listeners and the events the remote end sends
InitBidiEvents ==
  /\ WaitInit /\ now = 0
  /\ ClassicInit
  /\ BidiInit /\ ~autoReconnect
  /\ EventInit
  /\ NetInit
  /\ StorageInit /\ jar = EmptyMap /\ bidiMode
     /\ pageStorage = [localStorage |-> "{}", sessionStorage |-> "{}"]
  /\ LogInit
  /\ OrderInit
  /\ SelectInit
  /\ BrowserInit
NextBidiEvents ==
  \/ Connect
  \/ On
  \/ Off
  \/ \E s \in DOMAIN sockets : SocketOpen(s)
  \/ \E s \in DOMAIN sockets : DeliverEvent(s)
SpecBidiEvents == InitBidiEvents /\ [][NextBidiEvents]_vars

\* network interception
InitNet ==
  /\ WaitInit /\ now = 0
  /\ ClassicInit
  /\ BidiInit /\ ~autoReconnect
  /\ EventInit
  /\ NetInit
  /\ StorageInit /\ jar = EmptyMap /\ bidiMode
     /\ pageStorage = [localStorage |-> "{}", sessionStorage |-> "{}"]
  /\ LogInit
  /\ OrderInit
  /\ SelectInit
  /\ BrowserInit
NextNet ==
  \/ InterceptCall
  \/ SubscribeAnswered
  \/ AddInterceptAnswered
  \/ RemoveIntercept
  \/ BeforeRequestSent
  \/ HandlerSettles
  \/ CommandAnswered
SpecNet == InitNet /\ [][NextNet]_vars

\* network interception: the registries of rules and handlers, with
\* overlapping calls that add and remove intercepts
NextNetRegistry ==
  \/ InterceptCall
  \/ SubscribeAnswered
  \/ AddInterceptAnswered
  \/ RemoveInterceptCall
  \/ RemoveInterceptAnswered
  \/ RemoveAllCall
SpecNetRegistry == InitNet /\ [][NextNetRegistry]_vars

\* session state
InitStorage ==
  /\ WaitInit /\ now = 0
  /\ ClassicInit
  /\ BidiInit /\ ~autoReconnect
  /\ EventInit
  /\ NetInit
  /\ StorageInit
  /\ LogInit
  /\ OrderInit
  /\ SelectInit
  /\ BrowserInit
NextStorage == SaveState \/ ClearCookies \/ LoadState \/ AddCookie
SpecStorage == InitStorage /\ [][NextStorage]_vars

\* log monitoring: initialization, subscribers and entries
InitLogs ==
  /\ WaitInit /\ now = 0
  /\ ClassicInit
  /\ BidiInit /\ ~autoReconnect
  /\ EventInit
  /\ NetInit
  /\ StorageInit /\ jar = EmptyMap /\ bidiMode
     /\ pageStorage = [localStorage |-> "{}", sessionStorage |-> "{}"]
  /\ LogInit
  /\ OrderInit
  /\ SelectInit
  /\ BrowserInit
NextLogs ==
  \/ LogInitializeCall
  \/ LogInitializeAgain
  \/ LogSubscribeAnswered
  \/ OnLog
  \/ OnLevel
  \/ OnConsole
  \/ OnError
  \/ LogEntryAdded
SpecLogs == InitLogs /\ [][NextLogs]_vars

\* log monitoring: an initialized monitor and a page that keeps logging
InitLogBuffer ==
  /\ WaitInit /\ now = 0
  /\ ClassicInit
  /\ BidiInit /\ ~autoReconnect
  /\ EventInit
  /\ NetInit
  /\ StorageInit /\ jar = EmptyMap /\ bidiMode
     /\ pageStorage = [localStorage |-> "{}", sessionStorage |-> "{}"]
  /\ LogInitialized
  /\ OrderInit
  /\ SelectInit
  /\ BrowserInit
NextLogBuffer == LogFlood
SpecLogBuffer == InitLogBuffer /\ [][NextLogBuffer]_vars

\* events on an established connection, from the socket to the listeners
InitEventOrder ==
  /\ WaitInit /\ now = 0
  /\ ClassicInit
  /\ BidiConnected
  /\ EventInit
  /\ NetInit
  /\ StorageInit /\ jar = EmptyMap /\ bidiMode
     /\ pageStorage = [localStorage |-> "{}", sessionStorage |-> "{}"]
  /\ LogInitialized
  /\ OrderInit
  /\ SelectInit
  /\ BrowserInit
NextEventOrder ==
  \/ On
  \/ EventSent
  \/ MessageArrives
SpecEventOrder == InitEventOrder /\ [][NextEventOrder]_vars

\* events on an established connection whose subscriptions change
InitSubscriptions ==
  /\ WaitInit /\ now = 0
  /\ ClassicInit
  /\ BidiConnected
  /\ EventInit
  /\ NetInit
  /\ StorageInit /\ jar = EmptyMap /\ bidiMode
     /\ pageStorage = [localStorage |-> "{}", sessionStorage |-> "{}"]
  /\ LogInit
  /\ OrderInit
  /\ SelectInit
  /\ BrowserInit
NextSubscriptions ==
  \/ On
  \/ SubscribeCompleted
  \/ UnsubscribeCompleted
  \/ \E s \in DOMAIN sockets : DeliverEvent(s)
SpecSubscriptions == InitSubscriptions /\ [][NextSubscriptions]_vars

\* ElementHandle.select
InitSelect ==
  /\ WaitInit /\ now = 0
  /\ ClassicInit
  /\ BidiInit /\ ~autoReconnect
  /\ EventInit
  /\ NetInit
  /\ StorageInit /\ jar = EmptyMap /\ bidiMode
     /\ pageStorage = [localStorage |-> "{}", sessionStorage |-> "{}"]
  /\ LogInit
  /\ OrderInit
  /\ SelectInit
  /\ BrowserInit
NextSelect ==
  \/ SelectCall
  \/ LocateAnswered
  \/ LocateTimedOut
  \/ TagAnswered
  \/ ScriptAnswered
SpecSelect == InitSelect /\ [][NextSelect]_vars

\* log monitoring: an initialized monitor whose buffer the caller clears
InitLogClear ==
  /\ WaitInit /\ now = 0
  /\ ClassicInit
  /\ BidiInit /\ ~autoReconnect
  /\ EventInit
  /\ NetInit
  /\ StorageInit /\ jar = EmptyMap /\ bidiMode
     /\ pageStorage = [localStorage |-> "{}", sessionStorage |-> "{}"]
  /\ LogInitialized
  /\ OrderInit
  /\ SelectInit
  /\ BrowserInit
NextLogClear ==
  \/ OnLog
  \/ OnLevel
  \/ OnConsole
  \/ OnError
  \/ LogEntryAdded
  \/ ClearLogs
SpecLogClear == InitLogClear /\ [][NextLogClear]_vars

\* log monitoring: calls that wait for a console message or an error
NextLogWait ==
  \/ WaitForConsole
  \/ WaitForError
  \/ WaitTimerFires
  \/ LogEntryAdded
SpecLogWait == InitLogClear /\ [][NextLogWait]_vars

\* the Browser: launch, BiDi commands, quit
InitBrowser ==
  /\ WaitInit /\ now = 0
  /\ ClassicInit
  /\ BidiInit /\ ~autoReconnect
  /\ EventInit
  /\ NetInit
  /\ StorageInit /\ jar = EmptyMap /\ bidiMode
     /\ pageStorage = [localStorage |-> "{}", sessionStorage |-> "{}"]
  /\ LogInit
  /\ OrderInit
  /\ SelectInit
  /\ BrowserInit
NextBrowser ==
  \/ Launch
  \/ InitBiDiConnectSettled
  \/ InitBiDiSettled
  \/ QuitCall
  \/ QuitAnswered
  \/ BrowserCommand
  \/ \E s \in DOMAIN sockets : ConnectTimeout(s)
  \/ \E s \in DOMAIN sockets : SocketOpen(s)
  \/ \E s \in DOMAIN sockets : SocketError(s)
  \/ \E s \in DOMAIN sockets : SocketClose(s)
  \/ \E s \in DOMAIN sockets : RemoteResponds(s)
  \/ \E id \in DOMAIN pending : CommandTimeout(id)
SpecBrowser == InitBrowser /\ [][NextBrowser]_vars

=============================================================================
